---- MODULE Spec2Model ----
(***************************************************************************)
(* Lexi-Graph: the document ingestion pipeline of src/src/tasks.py         *)
(* (hybrid chunk packer, batch fan-out, chord fan-in, status transitions)  *)
(* and the upload endpoint that starts it.                                 *)
(*                                                                         *)
(* The collaborators are taken by their contracts: the Celery chord sends  *)
(* its callback once, when the last header task has returned and all have  *)
(* succeeded, and never after a header task raised; the documents table    *)
(* commits what it is given; partition(), the embedding model and the      *)
(* vector store may raise; collection.add stores the ids of a batch in one *)
(* call.  The text splitter is modelled on texts without break points,     *)
(* where it yields windows of chunk_size characters overlapping by         *)
(* chunk_overlap.                                                          *)
(*                                                                         *)
(* The query pipeline of src/src/service/query_service.py is modelled call *)
(* by call.  Every external call (generative model, Celery task result,    *)
(* vector store, Redis) either returns or raises; in SpecQueryFair a call  *)
(* that is made without a timeout may also never answer.  What the         *)
(* embedding model, BM25 and the cross-encoder compute is not modelled:    *)
(* the distance of the best hit and the order of a ranking are chosen      *)
(* freely.  Distances are counted in hundredths, time in seconds.  A       *)
(* collection is named after its case; Redis holds one value per case      *)
(* key, set and read as a whole, which expires cache_ttl after it was set. *)
(* RRF scores are exact fractions.                                         *)
(*                                                                         *)
(* Texts are kept as sequences of pieces.  A piece is a span               *)
(* [txt, lo, hi): the characters lo..hi-1 of the cleaned text `txt`, or    *)
(* the blank-line separator "\n\n" (two characters).  The length of a text *)
(* is the sum of the lengths of its pieces, so every length test of the    *)
(* code is evaluated on the true character count.                          *)
(***************************************************************************)
EXTENDS Integers, Sequences, FiniteSets, TLC

VARIABLES
    \* ---- the packer run on its own (one parsed document)
    elements,                    \* partition(filename=...): the parsed segments
    el_index,                    \* number of elements the loop has consumed
    packer,                      \* chunks_with_metadata, accumulator, exception
    packer_done,                 \* the flush after the loop has run
    \* ---- the ingestion pipeline
    upload,                      \* response to upload request d
    documents,                   \* the documents table
    files,                       \* stored file of document d, as parsed segments
    runs,                        \* per document: the task executions started for it
    store,                       \* vector store: per collection name, the record ids
    now,                         \* number of clock readings taken so far
    \* ---- the query pipeline
    queries,                     \* per query request: the state of its process_query call
    cache,                       \* the Redis cache: per case, the pickled keyword index
    \* ---- reciprocal rank fusion called on its own
    fusion                       \* the arguments of the call and what it returned

packer_vars == <<elements, el_index, packer, packer_done>>
pipeline_vars == <<upload, documents, files, runs, store, now>>
query_vars == <<queries, cache>>
fusion_vars == <<fusion>>
vars == <<elements, el_index, packer, packer_done,
          upload, documents, files, runs, store, now, queries, cache, fusion>>

\* ------------------------------------------------------------------ bounds
MaxSegs == 3          \* segments per parsed document (packer specification)
MaxBatches == 2       \* batches of the largest uploaded file
MaxRuns == 2          \* executions of prepare_and_process_document per document
ShortLen == 400       \* a short segment
Excess == 200         \* how far the oversized segment exceeds the target
ExtraWs == 3          \* surplus whitespace characters of a raw segment

\* ------------------------------------------------------- program constants
target_chunk_size_chars == 1000
chunk_overlap == 150
batch_size == 128

NoPage == 0           \* el.metadata.page_number is None (or 0): falsy
Pages == {NoPage, 1, 2}

\* ------------------------------------------------------------------- texts
SepPiece == [txt |-> "\n\n", lo |-> 0, hi |-> 2]

Span(txt, lo, hi) == [txt |-> txt, lo |-> lo, hi |-> hi]

RECURSIVE TextLen(_)
TextLen(t) == IF t = <<>> THEN 0 ELSE (Head(t).hi - Head(t).lo) + TextLen(Tail(t))

AppendWithSep_Overwrite(acc, element_text) == <<SepPiece>> \o element_text

\* f"\n\n{element_text}" appended to the accumulator
AppendWithSep(acc, element_text) == acc \o <<SepPiece>> \o element_text

\* clean(el.text, extra_whitespace=True): the surplus whitespace of the raw
\* text is removed, the remaining characters are the cleaned text
clean(el) ==
    IF el.len - el.ws = 0 THEN <<>> ELSE <<Span(el.txt, 0, el.len - el.ws)>>

\* page_number = el.metadata.page_number or "N/A"
NA == [isInt |-> FALSE, n |-> 0]

Locator(p) == IF p = NoPage THEN NA ELSE [isInt |-> TRUE, n |-> p]

\* sorted(list(current_chunk_page_numbers))[0]; comparing an int with the
\* string "N/A" raises TypeError
SortRaises(pages) == (\E a \in pages : a.isInt) /\ (\E b \in pages : ~b.isInt)

FirstSorted(pages) ==
    IF \E a \in pages : a.isInt
    THEN CHOOSE a \in pages : a.isInt /\ \A b \in pages : b.isInt => a.n <= b.n
    ELSE NA

\* RecursiveCharacterTextSplitter(chunk_size, chunk_overlap).split_text on a
\* cleaned text without break points: windows of chunk_size characters, each
\* starting chunk_size - chunk_overlap after the previous one; the last
\* window is the first that reaches the end of the text
NumSlices(len, size, overlap) ==
    IF len <= size THEN 1
    ELSE 1 + ((len - size) + (size - overlap) - 1) \div (size - overlap)

Slices(txt, len, size, overlap) ==
    [i \in 1..NumSlices(len, size, overlap) |->
        LET start == (i - 1) * (size - overlap)
        IN <<Span(txt, start, IF start + size >= len THEN len ELSE start + size)>>]

split_text(element_text) ==
    Slices(Head(element_text).txt, TextLen(element_text),
           target_chunk_size_chars, chunk_overlap)

Chunk(text, page, file_name) ==
    [text |-> text, page_number |-> page, file_name |-> file_name]

\* ----------------------------------------------------------- chunk packer
\* The state of the loop of lines 52-104: the chunk list, the accumulator
\* and its page set, and the exception raised (if any).
PackInit ==
    [chunks |-> <<>>, text |-> <<>>, pages |-> {}, err |-> "none"]

ExceedsTarget_Doubled(acc, element_text) ==
    TextLen(acc) + TextLen(element_text) > 2 * target_chunk_size_chars

\* Rule 1 test: would adding the element exceed the target size
ExceedsTarget(acc, element_text) ==
    TextLen(acc) + TextLen(element_text) > target_chunk_size_chars

PackStep_AccumulatorKept(s, el, file_name) ==
    LET element_text == clean(el)
        page_number == Locator(el.page_number)
        sub_chunks == split_text(element_text)
        SubChunks == [i \in 1..Len(sub_chunks) |->
                         Chunk(sub_chunks[i], page_number, file_name)]
    IN
    IF s.err # "none" THEN s
    ELSE IF TextLen(element_text) > target_chunk_size_chars
    THEN [s EXCEPT !.chunks = s.chunks \o SubChunks]
    ELSE IF ExceedsTarget(s.text, element_text)
    THEN IF SortRaises(s.pages)
         THEN [s EXCEPT !.err = "TypeError"]
         ELSE [s EXCEPT !.chunks = Append(s.chunks,
                             Chunk(s.text, FirstSorted(s.pages), file_name)),
                        !.text = element_text, !.pages = {page_number}]
    ELSE [s EXCEPT !.text = AppendWithSep(s.text, element_text),
                   !.pages = s.pages \cup {page_number}]

\* one iteration of `for el in elements`
PackStep(s, el, file_name) ==
    LET element_text == clean(el)
        page_number == Locator(el.page_number)
        sub_chunks == split_text(element_text)
        SubChunks == [i \in 1..Len(sub_chunks) |->
                         Chunk(sub_chunks[i], page_number, file_name)]
    IN
    IF s.err # "none" THEN s
    ELSE IF TextLen(element_text) > target_chunk_size_chars
    THEN IF TextLen(s.text) > 0
         THEN IF SortRaises(s.pages)
              THEN [s EXCEPT !.err = "TypeError"]
              ELSE [s EXCEPT !.chunks = Append(s.chunks,
                                  Chunk(s.text, FirstSorted(s.pages), file_name))
                                  \o SubChunks,
                             !.text = <<>>, !.pages = {}]
         ELSE [s EXCEPT !.chunks = s.chunks \o SubChunks]
    ELSE IF ExceedsTarget(s.text, element_text)
    THEN IF SortRaises(s.pages)
         THEN [s EXCEPT !.err = "TypeError"]
         ELSE [s EXCEPT !.chunks = Append(s.chunks,
                             Chunk(s.text, FirstSorted(s.pages), file_name)),
                        !.text = element_text, !.pages = {page_number}]
    ELSE [s EXCEPT !.text = AppendWithSep(s.text, element_text),
                   !.pages = s.pages \cup {page_number}]

\* the flush after the loop
PackFlush(s, file_name) ==
    IF s.err # "none" THEN s
    ELSE IF TextLen(s.text) > 0
    THEN IF SortRaises(s.pages)
         THEN [s EXCEPT !.err = "TypeError"]
         ELSE [s EXCEPT !.chunks = Append(s.chunks,
                             Chunk(s.text, FirstSorted(s.pages), file_name)),
                        !.text = <<>>, !.pages = {}]
    ELSE s

RECURSIVE PackLoop(_, _, _)
PackLoop(s, els, file_name) ==
    IF els = <<>> THEN s
    ELSE PackLoop(PackStep(s, Head(els), file_name), Tail(els), file_name)

\* the whole hybrid chunking of one parsed document
Pack(els, file_name) == PackFlush(PackLoop(PackInit, els, file_name), file_name)

\* ------------------------------------------------------------ input sets
DocIds == {1, 2}
CaseIds == {1, 2}

CollectionName_Shared(case_id) == [prefix |-> "case_", hex |-> 1]

\* collection_name = f"case_{case_id.replace('-', '')}": the prefix and the
\* hex digits of the case id; two case ids (canonical UUID strings) that
\* differ have different digits
CollectionName(case_id) == [prefix |-> "case_", hex |-> case_id]

CollectionNames == { CollectionName(c) : c \in CaseIds }

\* no collection holds a record
NoRecords == [name \in CollectionNames |-> {}]

Segment(txt, len, ws, page) == [txt |-> txt, len |-> len, ws |-> ws, page_number |-> page]

\* the length of a text that splits into (n - 1) * batch_size + 1 slices,
\* which makes n batches
BigLen(n) ==
    target_chunk_size_chars
    + (n - 1) * batch_size * (target_chunk_size_chars - chunk_overlap)

\* the length of a text that splits into exactly batch_size slices: one
\* full batch
FullLen ==
    target_chunk_size_chars
    + (batch_size - 1) * (target_chunk_size_chars - chunk_overlap)

\* raw length and surplus whitespace of the segments the packer is run on
SegShapes ==
    { <<0, 0>>, <<ExtraWs, ExtraWs>>, <<ShortLen, 0>>,
      <<target_chunk_size_chars - ShortLen, 0>>,
      <<target_chunk_size_chars, 0>>,
      <<target_chunk_size_chars + ExtraWs, ExtraWs>>,
      <<target_chunk_size_chars + Excess, 0>> }

Segs == { Segment("a", sh[1], sh[2], p) : sh \in SegShapes, p \in Pages }

RECURSIVE SeqsUpTo(_, _)
SeqsUpTo(S, n) ==
    IF n = 0 THEN { <<>> }
    ELSE LET shorter == SeqsUpTo(S, n - 1)
         IN shorter \cup { Append(q, x) : q \in shorter, x \in S }

\* the parsed contents of the files that are uploaded: no element, one
\* whitespace-only element, one short element, two short elements of which
\* one has no page number, and one element that makes n batches
Files ==
    { <<>>,
      <<Segment("a", ExtraWs, ExtraWs, 1)>>,
      <<Segment("a", ShortLen, 0, 1)>>,
      <<Segment("a", ShortLen, 0, 1), Segment("b", ShortLen, 0, NoPage)>> }
    \cup { <<Segment("c", BigLen(n), 0, 2)>> : n \in 2..MaxBatches }

\* a file that holds the same long element twice on one page; each copy
\* fills one batch
RepeatedFile == <<Segment("r", FullLen, 0, 1), Segment("r", FullLen, 0, 1)>>

\* ---------------------------------------------------------- documents table
Null == -1

\* a status message: its fixed text, the exception text it carries and the
\* chunk and batch counts it carries
Message(text, detail) == [text |-> text, detail |-> detail, chunks |-> 0, batches |-> 0]

NoDoc == [status |-> "ABSENT", status_message |-> Message("", ""),
          processed_at |-> Null, case_id |-> 0]

\* create_document_record: the row committed with status PENDING
NewDocument(case_id) ==
    [status |-> "PENDING", status_message |-> Message("", ""),
     processed_at |-> Null, case_id |-> case_id]

\* lines 36-38
MarkProcessing(doc) ==
    [doc EXCEPT !.status = "PROCESSING",
                !.status_message =
                    Message("Step 1/3: Parsing document content and metadata.", "")]

MarkNoContent_AsSuccess(doc) ==
    [doc EXCEPT !.status = "COMPLETED",
                !.status_message = Message("No content found to process.", "")]

\* lines 112-114
MarkNoContent(doc) ==
    [doc EXCEPT !.status = "FAILED",
                !.status_message = Message("No content found to process.", "")]

\* lines 122-123
MarkEmbedding(doc, n_chunks, n_batches) ==
    [doc EXCEPT !.status_message =
                    [Message("Step 2/3: Embedding chunks across batches.", "")
                        EXCEPT !.chunks = n_chunks, !.batches = n_batches]]

MarkPreparationFailed_MessageOnly(doc, e) ==
    [doc EXCEPT !.status_message = Message("Error during preparation: ", e)]

MarkPreparationFailed_Stamped(doc, e) ==
    [doc EXCEPT !.status = "FAILED",
                !.status_message = Message("Error during preparation: ", e),
                !.processed_at = 0]

\* lines 139-143
MarkPreparationFailed(doc, e) ==
    [doc EXCEPT !.status = "FAILED",
                !.status_message = Message("Error during preparation: ", e)]

\* lines 214-217
MarkCompleted(doc, t) ==
    [doc EXCEPT !.status = "COMPLETED",
                !.status_message = Message("Successfully indexed for searching.", ""),
                !.processed_at = t]

\* ------------------------------------------------------------- batching
Min(a, b) == IF a <= b THEN a ELSE b

NumBatches_Floor(n) == n \div batch_size

\* len(range(0, n, batch_size))
NumBatches(n) == (n + batch_size - 1) \div batch_size

\* chunks_with_metadata[i:i + batch_size] for the k-th i of range(0, n, batch_size)
BatchOf(chunks, k) ==
    SubSeq(chunks, (k - 1) * batch_size + 1, Min(k * batch_size, Len(chunks)))

\* str(chunk_obj['page_number'])
PageStr(page) == IF page.isInt THEN ToString(page.n) ELSE "N/A"

\* chunk_id = f"{document_id}_{md5(f'{page_number}-{i}-{text_content}')}",
\* i the zero-based position of the chunk in its batch
ChunkId(document_id, chunk_obj, i) ==
    [document_id |-> document_id,
     raw_id |-> <<PageStr(chunk_obj.page_number), i, chunk_obj.text>>]

BatchIds(document_id, batch) ==
    { ChunkId(document_id, batch[j], j - 1) : j \in 1..Len(batch) }

\* ------------------------------------------------------------- task state
\* One record per dispatched prepare_and_process_document(document_id):
\* the state of that task, of the header tasks of its chord (one per batch)
\* and the callback messages the chord has sent and the worker has run.
\* exc is the exception caught by the handler of line 135 ("none": none).
\* written is the set of ids the header tasks of the run have passed to
\* collection.add so far.
NewRun ==
    [prep |-> "QUEUED", exc |-> "none", batches |-> <<>>,
     cb_queued |-> 0, cb_runs |-> 0, written |-> {}]

CollectionAdd_Replace(coll, ids) == ids

\* collection.add(ids=ids, ...) of the Chroma client the code uses
\* (chromadb.HttpClient): the records whose id is new are inserted, a record
\* whose id is already in the collection is left as it is, without error
CollectionAdd(coll, ids) == coll \cup ids

\* the chunking of every file under every document it may be stored for
\* (file_name is the document's), tabulated once
PackedFiles == [f \in Files \cup {RepeatedFile}, d \in DocIds |-> Pack(f, d)]

DocChunks(d) == PackedFiles[files[d], d]

ChordCallbackDue_AnySuccess(bs) == \E i \in 1..Len(bs) : bs[i] = "SUCCESS"

ChordCallbackDue_IgnoresFailure(bs) ==
    \A i \in 1..Len(bs) : bs[i] \in {"SUCCESS", "FAILURE"}

ChordCallbackDue_FirstOnly(bs) == bs[1] = "SUCCESS"

\* the chord calls its body when every header task has succeeded
ChordCallbackDue(bs) == \A i \in 1..Len(bs) : bs[i] = "SUCCESS"

\* a header task returning: the chord counts it and sends the callback if due
ChordPartReturn(run, k, result) ==
    LET bs == [run.batches EXCEPT ![k] = result]
    IN [run EXCEPT !.batches = bs,
                   !.cb_queued = IF result = "SUCCESS" /\ ChordCallbackDue(bs)
                                 THEN @ + 1 ELSE @]

\* ----------------------------------------------------------------- actions
SetRun(d, r, run) == runs' = [runs EXCEPT ![d][r] = run]

\* routers/document.py, steps 1 and 2: the case access check, then
\* create_document_record saves the file and commits the PENDING row; an
\* error while saving or committing leaves no row and the request fails
upload_document_to_case(d) ==
    /\ upload[d] = "NONE"
    /\ \E db_case_found \in BOOLEAN, create_raises \in BOOLEAN,
          case_id \in CaseIds, f \in Files :
         IF ~db_case_found
         THEN /\ upload' = [upload EXCEPT ![d] = "404"]
              /\ UNCHANGED <<documents, files>>
         ELSE IF create_raises
         THEN /\ upload' = [upload EXCEPT ![d] = "500"]
              /\ UNCHANGED <<documents, files>>
         ELSE /\ upload' = [upload EXCEPT ![d] = "CREATED"]
              /\ documents' = [documents EXCEPT ![d] = NewDocument(case_id)]
              /\ files' = [files EXCEPT ![d] = f]
    /\ UNCHANGED <<runs, store, now>>
    /\ UNCHANGED <<packer_vars, query_vars, fusion_vars>>

dispatch_processing_Twice(d) ==
    /\ upload[d] = "CREATED"
    /\ upload' = [upload EXCEPT ![d] = "202"]
    /\ runs' = [runs EXCEPT ![d] = @ \o <<NewRun, NewRun>>]
    /\ UNCHANGED <<documents, files, store, now>>
    /\ UNCHANGED <<packer_vars, query_vars, fusion_vars>>

\* routers/document.py, step 3: prepare_and_process_document.delay(id), 202;
\* when the message cannot be sent (broker unreachable) delay raises, the
\* request fails and the PENDING row stays
dispatch_processing(d) ==
    /\ upload[d] = "CREATED"
    /\ \E delay_raises \in BOOLEAN :
         IF delay_raises
         THEN /\ upload' = [upload EXCEPT ![d] = "500"]
              /\ UNCHANGED runs
         ELSE /\ upload' = [upload EXCEPT ![d] = "202"]
              /\ runs' = [runs EXCEPT ![d] = Append(@, NewRun)]
    /\ UNCHANGED <<documents, files, store, now>>
    /\ UNCHANGED <<packer_vars, query_vars, fusion_vars>>

\* prepare_and_process_document up to its first commit (lines 26-38)
prepare_begin(d, r) ==
    /\ runs[d][r].prep = "QUEUED"
    /\ IF documents[d].status = "ABSENT"
       THEN /\ SetRun(d, r, [runs[d][r] EXCEPT !.prep = "DONE"])
            /\ UNCHANGED documents
       ELSE /\ SetRun(d, r, [runs[d][r] EXCEPT !.prep = "RUNNING"])
            /\ documents' = [documents EXCEPT ![d] = MarkProcessing(@)]
    /\ UNCHANGED <<upload, files, store, now>>
    /\ UNCHANGED <<packer_vars, query_vars, fusion_vars>>

\* the rest of prepare_and_process_document (lines 40-145): parse, chunk,
\* batch and dispatch the chord, or mark the document FAILED
prepare_and_process_document(d, r) ==
    /\ runs[d][r].prep = "RUNNING"
    /\ \E partition_raises \in BOOLEAN :
         LET packed == DocChunks(d)
             chunks_with_metadata == packed.chunks
             n_batches == NumBatches(Len(chunks_with_metadata))
         IN
         IF partition_raises
         THEN /\ documents' = [documents EXCEPT
                     ![d] = MarkPreparationFailed(@, "PartitionError")]
              /\ SetRun(d, r, [runs[d][r] EXCEPT
                     !.prep = "DONE", !.exc = "PartitionError"])
         ELSE IF packed.err # "none"
         THEN /\ documents' = [documents EXCEPT
                     ![d] = MarkPreparationFailed(@, packed.err)]
              /\ SetRun(d, r, [runs[d][r] EXCEPT
                     !.prep = "DONE", !.exc = packed.err])
         ELSE IF chunks_with_metadata = <<>>
         THEN /\ documents' = [documents EXCEPT ![d] = MarkNoContent(@)]
              /\ SetRun(d, r, [runs[d][r] EXCEPT !.prep = "DONE"])
         ELSE /\ documents' = [documents EXCEPT
                     ![d] = MarkEmbedding(@, Len(chunks_with_metadata), n_batches)]
              /\ SetRun(d, r, [runs[d][r] EXCEPT
                     !.prep = "DONE",
                     !.batches = [k \in 1..n_batches |-> "PENDING"]])
    /\ UNCHANGED <<upload, files, store, now>>
    /\ UNCHANGED <<packer_vars, query_vars, fusion_vars>>

\* a worker takes an embed_and_store_batch task of the chord header
embed_and_store_batch_begin(d, r, k) ==
    /\ runs[d][r].batches[k] = "PENDING"
    /\ SetRun(d, r, [runs[d][r] EXCEPT !.batches[k] = "STARTED"])
    /\ UNCHANGED <<upload, documents, files, store, now>>
    /\ UNCHANGED <<packer_vars, query_vars, fusion_vars>>

\* embed_and_store_batch returns: the records of the batch are in the
\* collection of the case (lines 157-196)
embed_and_store_batch(d, r, k) ==
    /\ runs[d][r].batches[k] = "STARTED"
    /\ LET ids == BatchIds(d, BatchOf(DocChunks(d).chunks, k))
       IN /\ store' = [store EXCEPT ![CollectionName(documents[d].case_id)] = CollectionAdd(@, ids)]
          /\ SetRun(d, r, [ChordPartReturn(runs[d][r], k, "SUCCESS")
                               EXCEPT !.written = @ \cup ids])
    /\ UNCHANGED <<upload, documents, files, now>>
    /\ UNCHANGED <<packer_vars, query_vars, fusion_vars>>

\* embed_and_store_batch raises (model, store or network error; lines 198-201)
embed_and_store_batch_raises(d, r, k) ==
    /\ runs[d][r].batches[k] = "STARTED"
    /\ SetRun(d, r, ChordPartReturn(runs[d][r], k, "FAILURE"))
    /\ UNCHANGED <<upload, documents, files, store, now>>
    /\ UNCHANGED <<packer_vars, query_vars, fusion_vars>>

\* the chord callback (lines 203-224)
mark_document_as_completed(d, r) ==
    /\ runs[d][r].cb_queued > 0
    /\ SetRun(d, r, [runs[d][r] EXCEPT !.cb_queued = @ - 1, !.cb_runs = @ + 1])
    /\ documents' = [documents EXCEPT
           ![d] = IF @.status = "ABSENT" THEN @ ELSE MarkCompleted(@, now)]
    /\ now' = now + 1
    /\ UNCHANGED <<upload, files, store>>
    /\ UNCHANGED <<packer_vars, query_vars, fusion_vars>>

\* tasks.prepare_and_process_document is sent again for a stored document
\* (the task is a named entry point of the worker: a re-ingestion request, or
\* the broker delivering the message a second time)
resubmit_document(d) ==
    /\ Len(runs[d]) >= 1
    /\ Len(runs[d]) < MaxRuns
    /\ runs' = [runs EXCEPT ![d] = Append(@, NewRun)]
    /\ UNCHANGED <<upload, documents, files, store, now>>
    /\ UNCHANGED <<packer_vars, query_vars, fusion_vars>>

\* ------------------------------------------------------- query pipeline
SHORT_QUERY_WORD_COUNT == 5
SLAM_DUNK_THRESHOLD == 40     \* 0.4, in hundredths
MISS_THRESHOLD == 90          \* 0.9, in hundredths
n_results == 10               \* collection.query(n_results=10)
fast_path_top == 3            \* vector_results['ids'][0][:3]
keyword_top_n == 10           \* bm25.get_top_n(..., n=10)
fused_top == 25               \* list(fused_results.keys())[:25]
rerank_top == 5               \* reranked_chunks[:5] and chunks[:5]
rrf_k == 60                   \* _reciprocal_rank_fusion(..., k=60)
cache_ttl == 3600             \* redis_client.set(..., ex=3600), in seconds

MaxCorpus == 12               \* chunks stored for the case that is queried
MaxRank == 2                  \* ids in a ranked list given to the fusion on its own

QueryIds == {1, 2}

\* the answers of the early exits
ANSWER_SEARCH_ERROR == "An error occurred while searching the document database."
ANSWER_NO_RESULTS ==
    "I couldn't find any information in the documents for your question."
ANSWER_NOT_RELEVANT ==
    "I could not find any information that was sufficiently relevant to your query."
ANSWER_NO_CANDIDATES == "Could not find any relevant documents after a detailed search."
ANSWER_NONE_RELEVANT ==
    "Found potential documents, but none were relevant enough to form an answer."
\* what rag_chain.invoke returns
FINAL_ANSWER == "final_answer"

\* -------- sequences
\* the element of a one-element set; an intermediate result is bound as the
\* element of such a set where it is used many times, so that it is
\* computed once
TheOne(S) == CHOOSE x \in S : TRUE

Take(seq, n) == SubSeq(seq, 1, Min(n, Len(seq)))

Reverse(seq) == [i \in 1..Len(seq) |-> seq[Len(seq) + 1 - i]]

\* a ranking computed by a model (embedding distance, BM25 score,
\* cross-encoder score) puts the items in an order the program does not
\* control
Orders == {"asc", "desc"}

Ranked(seq, order) == IF order = "asc" THEN seq ELSE Reverse(seq)

\* -------- the collection of a case
\* the records are the ids written by embed_and_store_batch; the text and
\* the metadata stored with an id (tasks.py lines 174-181) are read off it
TextOf(id) == id.raw_id[3]

Metadata(id, case_id) ==
    [document_id |-> id.document_id, case_id |-> case_id,
     file_name |-> id.document_id, page_number |-> id.raw_id[1],
     absolute_text |-> id.raw_id[3]]

\* the order in which the collection lists its records
Ord(id) == id.document_id * batch_size + id.raw_id[2]

InStoreOrder(S) ==
    [k \in 1..Cardinality(S) |->
        CHOOSE x \in S : Cardinality({ y \in S : Ord(y) < Ord(x) }) = k - 1]

\* One Python string is either a record id or a chunk text; an id
\* ("<document id>_<md5 hex>") and a chunk text are never the same string.
NoId == ChunkId(0, Chunk(<<>>, NA, 0), 0)

IdKey(id) == [kind |-> "id", id |-> id, text |-> <<>>]

TextKey(text) == [kind |-> "text", id |-> NoId, text |-> text]

\* collection.get(ids=keys, include=["metadatas"])['metadatas']: the
\* metadata of the records whose id is among the keys, listed in the order
\* of the request or in the order of the collection; a key that is no id of
\* the collection is skipped
GetOrders == {"requested", "stored"}

IsStoredId(coll, key) == key.kind = "id" /\ key.id \in coll

FoundIds(coll, keys, get_order) ==
    TheOne({ IF get_order = "requested"
             THEN [i \in 1..Len(found) |-> found[i].id]
             ELSE InStoreOrder({ found[i].id : i \in 1..Len(found) }) :
                found \in { SelectSeq(keys, LAMBDA key : IsStoredId(coll, key)) } })

CollectionGet(coll, keys, case_id, get_order) ==
    TheOne({ [i \in 1..Len(ids) |-> Metadata(ids[i], case_id)] :
                ids \in { FoundIds(coll, keys, get_order) } })

\* collection.get(where={"case_id": case_id})['documents']
CorpusOf(coll) ==
    TheOne({ [i \in 1..Len(ids) |-> TextOf(ids[i])] : ids \in { InStoreOrder(coll) } })

\* collection.query(query_embeddings=[e], n_results=10, where=...): the
\* n_results nearest records, nearest first, with their distances
VectorQuery(coll, d, order) ==
    TheOne({ [i \in 1..Min(n_results, Len(ids)) |->
                 [id |-> ids[i], distance |-> d + (i - 1)]] :
                ids \in { Ranked(InStoreOrder(coll), order) } })

\* -------- reciprocal rank fusion (lines 67-84), scores as fractions
\* a score is a fraction in lowest terms; two scores are added and compared
\* over their least common denominator
Frac(num, den) == [num |-> num, den |-> den]

RECURSIVE Gcd(_, _)
Gcd(a, b) == IF b = 0 THEN a ELSE Gcd(b, a % b)

Lcm(a, b) == (a \div Gcd(a, b)) * b

Reduced(num, den) == Frac(num \div Gcd(num, den), den \div Gcd(num, den))

FracAdd(a, b) ==
    LET den == Lcm(a.den, b.den)
    IN Reduced(a.num * (den \div a.den) + b.num * (den \div b.den), den)

FracGreater(a, b) ==
    LET den == Lcm(a.den, b.den)
    IN a.num * (den \div a.den) > b.num * (den \div b.den)

Reciprocal_OneMore(k, rank) == Frac(1, k + rank + 2)

\* line 81: 1 / (k + rank + 1), rank counted from zero
Reciprocal(k, rank) == Frac(1, k + rank + 1)

\* the contribution of the first n entries of one ranked list to doc_id
RECURSIVE ListScore(_, _, _, _)
ListScore(doc_list, doc_id, k, n) ==
    IF n = 0 THEN Frac(0, 1)
    ELSE LET rest == ListScore(doc_list, doc_id, k, n - 1)
         IN IF doc_list[n] = doc_id THEN FracAdd(rest, Reciprocal(k, n - 1)) ELSE rest

RECURSIVE RankedScore(_, _, _, _)
RankedScore(results_lists, doc_id, k, m) ==
    IF m = 0 THEN Frac(0, 1)
    ELSE FracAdd(RankedScore(results_lists, doc_id, k, m - 1),
                 ListScore(results_lists[m], doc_id, k, Len(results_lists[m])))

\* the keys of ranked_scores in insertion order
RECURSIVE FirstSeen(_, _)
FirstSeen(acc, rest) ==
    IF rest = <<>> THEN acc
    ELSE IF \E i \in 1..Len(acc) : acc[i] = Head(rest)
    THEN FirstSeen(acc, Tail(rest))
    ELSE FirstSeen(Append(acc, Head(rest)), Tail(rest))

RECURSIVE Flatten(_)
Flatten(lists) == IF lists = <<>> THEN <<>> ELSE Head(lists) \o Flatten(Tail(lists))

Before_TiesReversed(score, j, i) ==
    \/ FracGreater(score[j], score[i])
    \/ (~FracGreater(score[i], score[j]) /\ j > i)

\* sorted(ranked_scores.items(), key=score, reverse=True): the keys by
\* descending score, equal scores in insertion order (sorted is stable)
Before(score, j, i) ==
    \/ FracGreater(score[j], score[i])
    \/ (~FracGreater(score[i], score[j]) /\ j < i)

PlaceOf(score) ==
    [i \in DOMAIN score |-> 1 + Cardinality({ j \in DOMAIN score : Before(score, j, i) })]

SortedByPlace(keys, score, place) ==
    [p \in DOMAIN keys |->
        [doc_id |-> keys[CHOOSE i \in DOMAIN keys : place[i] = p],
         score |-> score[CHOOSE i \in DOMAIN keys : place[i] = p]]]

SortedByScore(keys, score) ==
    TheOne({ SortedByPlace(keys, score, place) : place \in {PlaceOf(score)} })

ScoresOf(results_lists, keys, k) ==
    [i \in DOMAIN keys |-> RankedScore(results_lists, keys[i], k, Len(results_lists))]

FusedFrom(results_lists, keys, k) ==
    TheOne({ SortedByScore(keys, score) : score \in {ScoresOf(results_lists, keys, k)} })

\* lines 67-84: every id with its score, best first
reciprocal_rank_fusion(results_lists, k) ==
    TheOne({ FusedFrom(lists, keys, k) :
                lists \in {results_lists},
                keys \in {FirstSeen(<<>>, Flatten(results_lists))} })

\* -------- the state of one query request
NoQuery == [words |-> 0, expanded |-> FALSE]

NoIndex == [present |-> FALSE, corpus |-> <<>>]

NoEntry == [present |-> FALSE, corpus |-> <<>>, set_at |-> 0]

NoResponse == [answer |-> "", sources |-> <<>>]

\* pc is the step the call is at, http the status the endpoint answered
\* with, calls the external calls made so far, raised the exception that
\* left process_query ("none": none), failed the calls that did not give
\* their result
NewQuery ==
    [pc |-> "IDLE", http |-> "NONE", case_id |-> 0,
     original |-> NoQuery, query |-> NoQuery, calls |-> <<>>,
     vector_results |-> <<>>, path |-> "none", bm25 |-> NoIndex,
     keyword_doc_ids |-> <<>>, candidate_chunks |-> <<>>,
     final_chunks |-> <<>>, failed |-> {}, raised |-> "none",
     response |-> NoResponse]

\* no call of _reciprocal_rank_fusion on its own
NoFusion == [pc |-> "NONE", results_lists |-> <<>>, k |-> 0, fused_results |-> <<>>]

QueryIdle ==
    /\ queries = [q \in QueryIds |-> NewQuery]
    /\ cache = [c \in CaseIds |-> NoEntry]
    /\ fusion = NoFusion

Called_Prepended(qr, name) == [qr EXCEPT !.calls = <<name>> \o @]

Called(qr, name) == [qr EXCEPT !.calls = Append(@, name)]

Failed(qr, name) == [qr EXCEPT !.failed = @ \cup {name}]

\* return QueryResponse(answer=..., sources=...): the endpoint answers 200
Return(qr, answer, sources) ==
    [qr EXCEPT !.pc = "DONE", !.http = "200",
               !.response = [answer |-> answer, sources |-> sources]]

\* an exception leaves process_query: the except of query_case turns it
\* into HTTP 500
Raise(qr, exc) == [qr EXCEPT !.pc = "DONE", !.http = "500", !.raised = exc]

SetQuery(q, qr) == queries' = [queries EXCEPT ![q] = qr]

\* -------- inputs of the query pipeline
WordCounts ==
    {1, SHORT_QUERY_WORD_COUNT - 1, SHORT_QUERY_WORD_COUNT, SHORT_QUERY_WORD_COUNT + 1}

\* the number of words of the text the generative model returns
ExpandedWordCounts == {1, SHORT_QUERY_WORD_COUNT + 1}

\* the distance of the best hit, around the two thresholds
Distances ==
    {SLAM_DUNK_THRESHOLD - 1, SLAM_DUNK_THRESHOLD, SLAM_DUNK_THRESHOLD + 1,
     MISS_THRESHOLD - 1, MISS_THRESHOLD, MISS_THRESHOLD + 1}

\* -------- the steps of process_query
NeedsExpansion_Always(query) == TRUE

\* len(query.split()) < SHORT_QUERY_WORD_COUNT
NeedsExpansion(query) == query.words < SHORT_QUERY_WORD_COUNT

\* _perform_expansion: the rewritten query, or the query it was given when
\* the call of the generative model raised
perform_expansion(query, fails, words) ==
    IF fails THEN query ELSE [words |-> words, expanded |-> TRUE]

Gate_StrictSlamDunk(d) ==
    IF d < SLAM_DUNK_THRESHOLD THEN "FAST"
    ELSE IF d > MISS_THRESHOLD THEN "MISS"
    ELSE "DEEP"

Gate_MissInclusive(d) ==
    IF d <= SLAM_DUNK_THRESHOLD THEN "FAST"
    ELSE IF d >= MISS_THRESHOLD THEN "MISS"
    ELSE "DEEP"

Gate_NoDeepDive(d) ==
    IF d <= SLAM_DUNK_THRESHOLD + 1 THEN "FAST" ELSE "MISS"

Gate_NeverMiss(d) ==
    IF d <= SLAM_DUNK_THRESHOLD THEN "FAST" ELSE "DEEP"

\* the confidence gates of lines 153-165
Gate(d) ==
    IF d <= SLAM_DUNK_THRESHOLD THEN "FAST"
    ELSE IF d > MISS_THRESHOLD THEN "MISS"
    ELSE "DEEP"

\* rerank_documents_task (tasks.py lines 248-290): nothing for no chunks,
\* the five best by cross-encoder score, or the first five as they came
\* when the model raised
rerank_documents_task(chunks, model_fails, order) ==
    IF chunks = <<>> THEN <<>>
    ELSE IF model_fails THEN Take(chunks, rerank_top)
    ELSE Take(Ranked(chunks, order), rerank_top)

\* bm25.get_top_n(tokenized_query, documents, n=10): the ten best texts
KeywordTopN(corpus, order) ==
    TheOne({ [i \in 1..Min(keyword_top_n, Len(texts)) |-> TextKey(texts[i])] :
                texts \in { Ranked(corpus, order) } })

\* lines 179-181: the first 25 keys of the fusion of the vector ids with
\* the keyword results
VectorDocIds(vector_results) ==
    [i \in 1..Len(vector_results) |-> IdKey(vector_results[i].id)]

TopFusedIds_KeywordOnly(vector_results, keyword_doc_ids) ==
    TheOne({ [i \in 1..Min(fused_top, Len(fused_results)) |-> fused_results[i].doc_id] :
                fused_results \in
                    { reciprocal_rank_fusion(<<keyword_doc_ids>>, rrf_k) } })

TopFusedIds(vector_results, keyword_doc_ids) ==
    TheOne({ [i \in 1..Min(fused_top, Len(fused_results)) |-> fused_results[i].doc_id] :
                fused_results \in
                    { reciprocal_rank_fusion(
                          <<VectorDocIds(vector_results), keyword_doc_ids>>, rrf_k) } })

\* line 156: the ids of the first three hits
FastPathIds(vector_results) ==
    [i \in 1..Min(fast_path_top, Len(vector_results)) |-> IdKey(vector_results[i].id)]

\* routers/query.py lines 31-42: the case access check, then process_query
query_case(q) ==
    /\ queries[q].pc = "IDLE"
    /\ \E db_case_found \in BOOLEAN, case_id \in CaseIds, words \in WordCounts :
         IF ~db_case_found
         THEN SetQuery(q, [queries[q] EXCEPT !.pc = "DONE", !.http = "404"])
         ELSE SetQuery(q, [queries[q] EXCEPT
                  !.pc = "EXPAND", !.case_id = case_id,
                  !.original = [words |-> words, expanded |-> FALSE],
                  !.query = [words |-> words, expanded |-> FALSE]])
    /\ UNCHANGED cache
    /\ UNCHANGED <<packer_vars, pipeline_vars, fusion_vars>>

\* lines 123-124
expand_query(q) ==
    /\ queries[q].pc = "EXPAND"
    /\ IF NeedsExpansion(queries[q].query)
       THEN \E fails \in BOOLEAN, words \in ExpandedWordCounts :
              SetQuery(q, [Called(queries[q], "expansion") EXCEPT
                  !.pc = "VECTOR",
                  !.query = perform_expansion(@, fails, words)])
       ELSE SetQuery(q, [queries[q] EXCEPT !.pc = "VECTOR"])
    /\ UNCHANGED cache
    /\ UNCHANGED <<packer_vars, pipeline_vars, fusion_vars>>

\* lines 126-140: embed the query, open the collection of the case, ask for
\* the nearest records; any exception gives the search-error response
vector_search(q) ==
    /\ queries[q].pc = "VECTOR"
    /\ \E outcome \in {"embed_raises", "get_collection_raises", "query_raises", "ok"},
          d \in Distances, order \in Orders :
         LET qr == queries[q]
             embedded == Called(qr, "embedding")
             opened == Called(embedded, "get_collection")
             queried == Called(opened, "vector_query")
         IN
         IF outcome = "embed_raises"
         THEN SetQuery(q, Return(embedded, ANSWER_SEARCH_ERROR, <<>>))
         ELSE IF outcome = "get_collection_raises"
         THEN SetQuery(q, Return(opened, ANSWER_SEARCH_ERROR, <<>>))
         ELSE IF outcome = "query_raises"
         THEN SetQuery(q, Return(queried, ANSWER_SEARCH_ERROR, <<>>))
         ELSE SetQuery(q, [queried EXCEPT
                  !.pc = "GATES",
                  !.vector_results = VectorQuery(store[CollectionName(qr.case_id)], d, order)])
    /\ UNCHANGED cache
    /\ UNCHANGED <<packer_vars, pipeline_vars, fusion_vars>>

\* lines 144-165
confidence_gates(q) ==
    /\ queries[q].pc = "GATES"
    /\ LET qr == queries[q]
           vector_results == qr.vector_results
           top_document_distance == vector_results[1].distance
           top_ids == FastPathIds(vector_results)
       IN
       IF vector_results = <<>>
       THEN SetQuery(q, Return(qr, ANSWER_NO_RESULTS, <<>>))
       ELSE IF Gate(top_document_distance) = "FAST"
       THEN \E get_raises \in BOOLEAN, get_order \in GetOrders :
              IF get_raises
              THEN SetQuery(q, Raise([Called(qr, "metadata_fetch") EXCEPT
                                         !.path = "FAST"], "StoreError"))
              ELSE SetQuery(q, [Called(qr, "metadata_fetch") EXCEPT
                       !.pc = "SYNTH", !.path = "FAST",
                       !.final_chunks =
                           CollectionGet(store[CollectionName(qr.case_id)], top_ids,
                                         qr.case_id, get_order)])
       ELSE IF Gate(top_document_distance) = "MISS"
       THEN SetQuery(q, Return([qr EXCEPT !.path = "MISS"], ANSWER_NOT_RELEVANT, <<>>))
       ELSE SetQuery(q, [qr EXCEPT !.pc = "CACHE_GET", !.path = "DEEP"])
    /\ UNCHANGED cache
    /\ UNCHANGED <<packer_vars, pipeline_vars, fusion_vars>>

RedisGet_NeverExpires(entry, t) == {entry}

\* redis_client.get(cache_key) at time t: the value set with ex=3600 is
\* there before its expiry time and gone after it; a read in the second of
\* the expiry may fall on either side
RedisGet(entry, t) ==
    IF ~entry.present THEN {NoEntry}
    ELSE IF t < entry.set_at + cache_ttl THEN {entry}
    ELSE IF t > entry.set_at + cache_ttl THEN {NoEntry}
    ELSE {entry, NoEntry}

RedisSet_Merge(entry, corpus, t) ==
    [present |-> TRUE, corpus |-> entry.corpus \o corpus, set_at |-> t]

\* redis_client.set(cache_key, pickle.dumps(bm25), ex=3600) at time t: one
\* command, the whole value replaces the one that was there
RedisSet(entry, corpus, t) == [present |-> TRUE, corpus |-> corpus, set_at |-> t]

\* _get_bm25_index_for_case, lines 31-39: read the cache; redis_client.get
\* and pickle.loads are outside the try of line 43
bm25_cache_get(q) ==
    /\ queries[q].pc = "CACHE_GET"
    /\ \E outcome \in {"get_raises", "loads_raises", "ok"},
          cached_index \in RedisGet(cache[queries[q].case_id], now) :
         LET qr == Called(queries[q], "cache_read")
         IN
         IF outcome = "get_raises"
         THEN SetQuery(q, Raise(Failed(qr, "cache_read"), "RedisError"))
         ELSE IF outcome = "loads_raises" /\ cached_index.present
         THEN SetQuery(q, Raise(Failed(qr, "cache_read"), "UnpicklingError"))
         ELSE IF cached_index.present
         THEN SetQuery(q, [qr EXCEPT
                  !.pc = "KEYWORD",
                  !.bm25 = [present |-> TRUE, corpus |-> cached_index.corpus]])
         ELSE SetQuery(q, [qr EXCEPT !.pc = "BM25_BUILD"])
    /\ UNCHANGED cache
    /\ UNCHANGED <<packer_vars, pipeline_vars, fusion_vars>>

BuildIndex_OfEmptyCorpus(corpus) == [present |-> TRUE, corpus |-> corpus]

\* lines 48-55: no index for an empty corpus, otherwise BM25Okapi over the
\* tokenized texts; the index is kept as the corpus it was built from
BuildIndex(corpus) ==
    IF corpus = <<>> THEN NoIndex ELSE [present |-> TRUE, corpus |-> corpus]

\* _get_bm25_index_for_case, lines 43-64: fetch the texts of the case, build
\* the index and cache it; any exception gives no index
bm25_build(q) ==
    /\ queries[q].pc = "BM25_BUILD"
    /\ \E outcome \in {"fetch_raises", "set_raises", "ok"} :
         LET qr == Called(queries[q], "corpus_fetch")
             corpus == CorpusOf(store[CollectionName(qr.case_id)])
             bm25 == BuildIndex(corpus)
         IN
         IF outcome = "fetch_raises" \/ ~bm25.present
         THEN /\ SetQuery(q, [qr EXCEPT !.pc = "KEYWORD", !.bm25 = NoIndex])
              /\ UNCHANGED cache
         ELSE IF outcome = "set_raises"
         THEN /\ SetQuery(q, [Called(qr, "cache_write") EXCEPT
                     !.pc = "KEYWORD", !.bm25 = NoIndex])
              /\ UNCHANGED cache
         ELSE /\ SetQuery(q, [Called(qr, "cache_write") EXCEPT
                     !.pc = "KEYWORD", !.bm25 = bm25])
              /\ cache' = [cache EXCEPT ![qr.case_id] = RedisSet(@, bm25.corpus, now)]
    /\ UNCHANGED <<packer_vars, pipeline_vars, fusion_vars>>

\* lines 170-175: with an index, the ten best texts of the corpus that is
\* fetched now; get_top_n asserts that this corpus has the size of the one
\* the index was built from
keyword_search(q) ==
    /\ queries[q].pc = "KEYWORD"
    /\ LET qr == queries[q]
           corpus_now == CorpusOf(store[CollectionName(qr.case_id)])
       IN
       IF qr.bm25.present
       THEN \E get_raises \in BOOLEAN, order \in Orders :
              IF get_raises
              THEN SetQuery(q, Raise(Called(qr, "keyword_search"), "StoreError"))
              ELSE IF Len(corpus_now) # Len(qr.bm25.corpus)
              THEN SetQuery(q, Raise(Called(qr, "keyword_search"), "AssertionError"))
              ELSE SetQuery(q, [Called(qr, "keyword_search") EXCEPT
                       !.pc = "FUSE",
                       !.keyword_doc_ids = KeywordTopN(corpus_now, order)])
       ELSE SetQuery(q, [qr EXCEPT !.pc = "FUSE", !.keyword_doc_ids = <<>>])
    /\ UNCHANGED cache
    /\ UNCHANGED <<packer_vars, pipeline_vars, fusion_vars>>

\* lines 178-187: fuse the two rankings, keep the first 25 keys and fetch
\* their metadata
fuse_results(q) ==
    /\ queries[q].pc = "FUSE"
    /\ LET qr == Called(queries[q], "fusion")
           top_fused_ids == TopFusedIds(qr.vector_results, qr.keyword_doc_ids)
       IN
       IF top_fused_ids = <<>>
       THEN SetQuery(q, Return(qr, ANSWER_NO_CANDIDATES, <<>>))
       ELSE \E get_raises \in BOOLEAN, get_order \in GetOrders :
              IF get_raises
              THEN SetQuery(q, Raise(Called(qr, "candidate_fetch"), "StoreError"))
              ELSE SetQuery(q, [Called(qr, "candidate_fetch") EXCEPT
                       !.pc = "RERANK",
                       !.candidate_chunks =
                           CollectionGet(store[CollectionName(qr.case_id)], top_fused_ids,
                                         qr.case_id, get_order)])
    /\ UNCHANGED cache
    /\ UNCHANGED <<packer_vars, pipeline_vars, fusion_vars>>

\* line 192: the re-rank task is sent and its result awaited for 30 s; a
\* timeout or a broker error raises here
rerank(q) ==
    /\ queries[q].pc = "RERANK"
    /\ \E outcome \in {"call_raises", "model_raises", "ok"}, order \in Orders :
         LET qr == Called(queries[q], "rerank")
         IN
         IF outcome = "call_raises"
         THEN SetQuery(q, Raise(Failed(qr, "rerank"), "TimeoutError"))
         ELSE SetQuery(q, [(IF outcome = "model_raises"
                            THEN Failed(qr, "rerank") ELSE qr) EXCEPT
                  !.pc = "SYNTH",
                  !.final_chunks =
                      rerank_documents_task(qr.candidate_chunks,
                                            outcome = "model_raises", order)])
    /\ UNCHANGED cache
    /\ UNCHANGED <<packer_vars, pipeline_vars, fusion_vars>>

generate_answer_Unchecked(q) ==
    /\ queries[q].pc = "SYNTH"
    /\ LET qr == queries[q]
       IN \E generation_raises \in BOOLEAN :
              IF generation_raises
              THEN SetQuery(q, Raise(Called(qr, "generation"), "GenerationError"))
              ELSE SetQuery(q, Return(Called(qr, "generation"),
                                      FINAL_ANSWER, qr.final_chunks))
    /\ UNCHANGED cache
    /\ UNCHANGED <<packer_vars, pipeline_vars, fusion_vars>>

\* lines 196-243: no chunks, no answer; otherwise the generative model is
\* called with the chunk texts and the sources are the final chunks
generate_answer(q) ==
    /\ queries[q].pc = "SYNTH"
    /\ LET qr == queries[q]
       IN
       IF qr.final_chunks = <<>>
       THEN SetQuery(q, Return(qr, ANSWER_NONE_RELEVANT, <<>>))
       ELSE \E generation_raises \in BOOLEAN :
              IF generation_raises
              THEN SetQuery(q, Raise(Called(qr, "generation"), "GenerationError"))
              ELSE SetQuery(q, Return(Called(qr, "generation"),
                                      FINAL_ANSWER, qr.final_chunks))
    /\ UNCHANGED cache
    /\ UNCHANGED <<packer_vars, pipeline_vars, fusion_vars>>

\* The calls the step at hand makes up to the first one that is made
\* without a timeout (<<>>: the step makes no such call).  Only the two
\* Celery results are awaited with a timeout (lines 126 and 192:
\* get(timeout=30)); the generative model (lines 103 and 230), the vector
\* store (lines 130-133, 156, 45, 173, 187) and Redis (lines 31-35) are
\* called with the defaults of their clients, which wait without limit.
UntimedCalls(qr) ==
    IF qr.pc = "EXPAND" /\ NeedsExpansion(qr.query) THEN <<"expansion">>
    ELSE IF qr.pc = "VECTOR" THEN <<"embedding", "get_collection", "vector_query">>
    ELSE IF qr.pc = "GATES" /\ qr.vector_results # <<>>
               /\ Gate(qr.vector_results[1].distance) = "FAST"
    THEN <<"metadata_fetch">>
    ELSE IF qr.pc = "CACHE_GET" THEN <<"cache_read">>
    ELSE IF qr.pc = "BM25_BUILD" THEN <<"corpus_fetch">>
    ELSE IF qr.pc = "KEYWORD" /\ qr.bm25.present THEN <<"keyword_search">>
    ELSE IF qr.pc = "FUSE" /\ qr.vector_results # <<>>
    THEN <<"fusion", "candidate_fetch">>
    ELSE IF qr.pc = "SYNTH" /\ qr.final_chunks # <<>> THEN <<"generation">>
    ELSE <<>>

\* the service that is called without a timeout accepts the request and
\* never answers: process_query stays in that call
call_never_answers(q) ==
    /\ UntimedCalls(queries[q]) # <<>>
    /\ SetQuery(q, [queries[q] EXCEPT
           !.pc = "BLOCKED", !.calls = @ \o UntimedCalls(queries[q])])
    /\ UNCHANGED cache
    /\ UNCHANGED <<packer_vars, pipeline_vars, fusion_vars>>

\* tasks.prepare_and_process_document is sent a second time for a document
\* (a second ingestion of the same stored file)
reingest_document(d) ==
    /\ Len(runs[d]) = 1
    /\ runs' = [runs EXCEPT ![d] = Append(@, NewRun)]
    /\ UNCHANGED <<upload, documents, files, store, now>>
    /\ UNCHANGED <<packer_vars, query_vars, fusion_vars>>

\* ------------------------------------------------------------ the pipeline
PackerIdle ==
    /\ elements = <<>>
    /\ el_index = 0
    /\ packer = PackInit
    /\ packer_done = FALSE

Init ==
    /\ upload = [d \in DocIds |-> "NONE"]
    /\ documents = [d \in DocIds |-> NoDoc]
    /\ files = [d \in DocIds |-> <<>>]
    /\ runs = [d \in DocIds |-> <<>>]
    /\ store = NoRecords
    /\ now = 0
    /\ PackerIdle
    /\ QueryIdle

PipelineNext(D) ==
    \/ \E d \in D : upload_document_to_case(d)
    \/ \E d \in D : dispatch_processing(d)
    \/ \E d \in D : \E r \in 1..Len(runs[d]) : prepare_begin(d, r)
    \/ \E d \in D : \E r \in 1..Len(runs[d]) : prepare_and_process_document(d, r)
    \/ \E d \in D : \E r \in 1..Len(runs[d]) :
         \E k \in 1..Len(runs[d][r].batches) : embed_and_store_batch_begin(d, r, k)
    \/ \E d \in D : \E r \in 1..Len(runs[d]) :
         \E k \in 1..Len(runs[d][r].batches) : embed_and_store_batch(d, r, k)
    \/ \E d \in D : \E r \in 1..Len(runs[d]) :
         \E k \in 1..Len(runs[d][r].batches) : embed_and_store_batch_raises(d, r, k)
    \/ \E d \in D : \E r \in 1..Len(runs[d]) : mark_document_as_completed(d, r)

Next == PipelineNext(DocIds)

Spec == Init /\ [][Next]_vars

\* the pipeline with the scheduling of the worker: a queued completion
\* callback is eventually executed
SpecFair ==
    Spec /\ \A d \in DocIds :
               WF_vars(\E r \in 1..Len(runs[d]) : mark_document_as_completed(d, r))

\* the pipeline of one document whose task may be sent more than once
ResubmitDocs == {1}

NextResubmit ==
    \/ PipelineNext(ResubmitDocs)
    \/ \E d \in ResubmitDocs : resubmit_document(d)

SpecResubmit == Init /\ [][NextResubmit]_vars

\* the pipeline of one document that is ingested twice; the two ingestions
\* may overlap
NextReingest ==
    \/ PipelineNext(ResubmitDocs)
    \/ \E d \in ResubmitDocs : reingest_document(d)

SpecReingest == Init /\ [][NextReingest]_vars

\* the pipeline after the upload of the file with the repeated element as
\* document 1 has been accepted
InitRepeated ==
    /\ upload = [d \in DocIds |-> IF d = 1 THEN "CREATED" ELSE "NONE"]
    /\ documents = [d \in DocIds |-> IF d = 1 THEN NewDocument(1) ELSE NoDoc]
    /\ files = [d \in DocIds |-> IF d = 1 THEN RepeatedFile ELSE <<>>]
    /\ runs = [d \in DocIds |-> <<>>]
    /\ store = NoRecords
    /\ now = 0
    /\ PackerIdle
    /\ QueryIdle

SpecRepeated == InitRepeated /\ [][Next]_vars

\* ------------------------------------------------- the packer on its own
PipelineIdle ==
    /\ upload = [d \in DocIds |-> "NONE"]
    /\ documents = [d \in DocIds |-> NoDoc]
    /\ files = [d \in DocIds |-> <<>>]
    /\ runs = [d \in DocIds |-> <<>>]
    /\ store = NoRecords
    /\ now = 0

PackerFile == 0

InitPacker ==
    /\ elements \in SeqsUpTo(Segs, MaxSegs)
    /\ el_index = 0
    /\ packer = PackInit
    /\ packer_done = FALSE
    /\ PipelineIdle
    /\ QueryIdle

\* one iteration of the loop of lines 56-96
pack_element ==
    /\ ~packer_done
    /\ packer.err = "none"
    /\ el_index < Len(elements)
    /\ packer' = PackStep(packer, elements[el_index + 1], PackerFile)
    /\ el_index' = el_index + 1
    /\ UNCHANGED <<elements, packer_done>>
    /\ UNCHANGED <<pipeline_vars, query_vars, fusion_vars>>

\* lines 98-104
pack_flush ==
    /\ ~packer_done
    /\ packer.err = "none"
    /\ el_index = Len(elements)
    /\ packer' = PackFlush(packer, PackerFile)
    /\ packer_done' = TRUE
    /\ UNCHANGED <<elements, el_index>>
    /\ UNCHANGED <<pipeline_vars, query_vars, fusion_vars>>

NextPacker == pack_element \/ pack_flush

SpecPacker == InitPacker /\ [][NextPacker]_vars

\* -------------------------------------------------- the query pipeline
\* the chunks of document 1 stored for case 1, and one chunk of document 2
\* stored for case 2
StoredChunk(j) == ChunkId(1, Chunk(<<Span("q", 0, j)>>, Locator(1), 1), j - 1)

Corpus(n) == { StoredChunk(j) : j \in 1..n }

OtherCorpus == { ChunkId(2, Chunk(<<Span("o", 0, 1)>>, Locator(2), 2), 0) }

CorpusSizes == {0, 1, MaxCorpus}

\* the index of a corpus as a finished lookup left it in the cache
CachedIndex(coll) == [present |-> TRUE, corpus |-> CorpusOf(coll), set_at |-> 0]

\* the collections as earlier ingestions left them; the cache is empty or
\* holds the index of the corpus of case 1
InitQuery ==
    /\ upload = [d \in DocIds |-> "NONE"]
    /\ documents = [d \in DocIds |-> NoDoc]
    /\ files = [d \in DocIds |-> <<>>]
    /\ runs = [d \in DocIds |-> <<>>]
    /\ now = 0
    /\ PackerIdle
    /\ \E n \in CorpusSizes :
         /\ store = [name \in CollectionNames |->
                        IF name = CollectionName(1) THEN Corpus(n) ELSE OtherCorpus]
         /\ \/ cache = [c \in CaseIds |-> NoEntry]
            \/ /\ n > 0
               /\ cache = [c \in CaseIds |->
                              IF c = 1 THEN CachedIndex(Corpus(n)) ELSE NoEntry]
    /\ queries = [q \in QueryIds |-> NewQuery]
    /\ fusion = NoFusion

QueryNext(Q) ==
    \/ \E q \in Q : query_case(q)
    \/ \E q \in Q : expand_query(q)
    \/ \E q \in Q : vector_search(q)
    \/ \E q \in Q : confidence_gates(q)
    \/ \E q \in Q : bm25_cache_get(q)
    \/ \E q \in Q : bm25_build(q)
    \/ \E q \in Q : keyword_search(q)
    \/ \E q \in Q : fuse_results(q)
    \/ \E q \in Q : rerank(q)
    \/ \E q \in Q : generate_answer(q)

\* one query request at a time
SingleQuery == {1}

NextQuery == QueryNext(SingleQuery)

SpecQuery == InitQuery /\ [][NextQuery]_vars

\* the query pipeline with services that may stop answering; the request
\* handler itself keeps running: a step that can be taken is taken
NextQueryFair ==
    \/ NextQuery
    \/ \E q \in SingleQuery : call_never_answers(q)

SpecQueryFair == InitQuery /\ [][NextQueryFair]_vars /\ WF_vars(NextQuery)

\* ------------------------------------- after the vector search
\* process_query from line 144 on, run by a request that brings the result
\* of its vector search with it.  The collection of the case holds the
\* records it held at the time of the search, or none of them any more (the
\* vector store is a server of its own; the records of a case can be
\* removed from it between two calls of one request).
GatesEntry(case_id, vector_results) ==
    [NewQuery EXCEPT
        !.pc = "GATES", !.case_id = case_id,
        !.original = [words |-> SHORT_QUERY_WORD_COUNT, expanded |-> FALSE],
        !.query = [words |-> SHORT_QUERY_WORD_COUNT, expanded |-> FALSE],
        !.calls = <<"embedding", "get_collection", "vector_query">>,
        !.vector_results = vector_results]

InitSynthesis ==
    /\ upload = [d \in DocIds |-> "NONE"]
    /\ documents = [d \in DocIds |-> NoDoc]
    /\ files = [d \in DocIds |-> <<>>]
    /\ runs = [d \in DocIds |-> <<>>]
    /\ now = 0
    /\ PackerIdle
    /\ fusion = NoFusion
    /\ \E n \in CorpusSizes \ {0} : \E left \in {0, n} :
         /\ store = [name \in CollectionNames |->
                        IF name = CollectionName(1) THEN Corpus(left) ELSE OtherCorpus]
         /\ \/ cache = [c \in CaseIds |-> NoEntry]
            \/ cache = [c \in CaseIds |->
                           IF c = 1 THEN CachedIndex(Corpus(n)) ELSE NoEntry]
         /\ \E d \in Distances, order \in Orders :
              queries = [q \in QueryIds |->
                            IF q \in SingleQuery
                            THEN GatesEntry(1, VectorQuery(Corpus(n), d, order))
                            ELSE NewQuery]

NextSynthesis ==
    \/ \E q \in SingleQuery : confidence_gates(q)
    \/ \E q \in SingleQuery : bm25_cache_get(q)
    \/ \E q \in SingleQuery : bm25_build(q)
    \/ \E q \in SingleQuery : keyword_search(q)
    \/ \E q \in SingleQuery : fuse_results(q)
    \/ \E q \in SingleQuery : rerank(q)
    \/ \E q \in SingleQuery : generate_answer(q)

SpecSynthesis == InitSynthesis /\ [][NextSynthesis]_vars

\* ------------------------------------------- the deep dive on its own
\* Lines 167-175 of process_query with the index lookup they call, run by
\* two requests on case 1 while a batch of document 2 is written to the
\* collection of the case and while time passes.  The inputs are drawn here:
\* the records the collection holds, what the cache holds, and the vector
\* results the requests bring with them (the nearest records at the time of
\* their vector search, which is not later than now).
OneChunkFile == <<Segment("a", ShortLen, 0, 1)>>

\* document d of a case, uploaded and prepared: its one batch is dispatched
PreparedDocument(case_id) ==
    MarkEmbedding(MarkProcessing(NewDocument(case_id)), 1, 1)

PreparedRun == [NewRun EXCEPT !.prep = "DONE", !.batches = <<"PENDING">>]

\* document 1 of case 1 as its completed ingestion left it
CompletedDocument(case_id) ==
    MarkCompleted(PreparedDocument(case_id), 0)

\* a request on a case that the confidence gates have sent to the deep dive
DeepDiveEntry(case_id, vector_results) ==
    [NewQuery EXCEPT
        !.pc = "CACHE_GET", !.case_id = case_id,
        !.original = [words |-> SHORT_QUERY_WORD_COUNT, expanded |-> FALSE],
        !.query = [words |-> SHORT_QUERY_WORD_COUNT, expanded |-> FALSE],
        !.calls = <<"embedding", "get_collection", "vector_query">>,
        !.vector_results = vector_results, !.path = "DEEP"]

\* the times at which something happens: around the expiry of a value
\* that was cached at time 0
ClockTimes == {0, cache_ttl - 1, cache_ttl, cache_ttl + 1}

\* time passes
tick ==
    /\ \E t \in ClockTimes : t > now /\ now' = t
    /\ UNCHANGED <<upload, documents, files, runs, store>>
    /\ UNCHANGED <<packer_vars, query_vars, fusion_vars>>

\* the header tasks of the chord of a prepared document
ChordHeaderNext(D) ==
    \/ \E d \in D : \E r \in 1..Len(runs[d]) :
         \E k \in 1..Len(runs[d][r].batches) : embed_and_store_batch_begin(d, r, k)
    \/ \E d \in D : \E r \in 1..Len(runs[d]) :
         \E k \in 1..Len(runs[d][r].batches) : embed_and_store_batch(d, r, k)
    \/ \E d \in D : \E r \in 1..Len(runs[d]) :
         \E k \in 1..Len(runs[d][r].batches) : embed_and_store_batch_raises(d, r, k)

IngestedDocs == {2}

\* document 2 is prepared for the given case; the collection of case 1
\* holds n chunks of document 1
IngestionUnderWay(case_id, n) ==
    /\ upload = [d \in DocIds |-> IF d \in IngestedDocs THEN "202" ELSE "NONE"]
    /\ documents = [d \in DocIds |->
                       IF d \in IngestedDocs THEN PreparedDocument(case_id)
                       ELSE IF n > 0 THEN CompletedDocument(1) ELSE NoDoc]
    /\ files = [d \in DocIds |-> IF d \in IngestedDocs THEN OneChunkFile ELSE <<>>]
    /\ runs = [d \in DocIds |-> IF d \in IngestedDocs THEN <<PreparedRun>> ELSE <<>>]
    /\ store = [name \in CollectionNames |->
                   IF name = CollectionName(1) THEN Corpus(n) ELSE {}]
    /\ now = 0

InitLookup ==
    /\ PackerIdle
    /\ fusion = NoFusion
    /\ \E n \in CorpusSizes :
         /\ IngestionUnderWay(1, n)
         /\ \/ cache = [c \in CaseIds |-> NoEntry]
            \/ /\ n > 0
               /\ cache = [c \in CaseIds |->
                              IF c = 1 THEN CachedIndex(Corpus(n)) ELSE NoEntry]
         /\ queries =
               [q \in QueryIds |->
                   DeepDiveEntry(1, VectorQuery(Corpus(IF n = 0 THEN 1 ELSE n),
                                                SLAM_DUNK_THRESHOLD + 1, "asc"))]

NextLookup ==
    \/ \E q \in QueryIds : bm25_cache_get(q)
    \/ \E q \in QueryIds : bm25_build(q)
    \/ \E q \in QueryIds : keyword_search(q)
    \/ ChordHeaderNext(IngestedDocs)
    \/ tick

SpecLookup == InitLookup /\ [][NextLookup]_vars

\* ----------------------------------- a query while a document is ingested
\* one request on either case while the batch of document 2 is written to
\* the collection of either case
InitIsolation ==
    /\ PackerIdle
    /\ fusion = NoFusion
    /\ queries = [q \in QueryIds |-> NewQuery]
    /\ \E n \in CorpusSizes, case_id \in CaseIds :
         /\ IngestionUnderWay(case_id, n)
         /\ \/ cache = [c \in CaseIds |-> NoEntry]
            \/ /\ n > 0
               /\ cache = [c \in CaseIds |->
                              IF c = 1 THEN CachedIndex(Corpus(n)) ELSE NoEntry]

NextIsolation ==
    \/ QueryNext(SingleQuery)
    \/ ChordHeaderNext(IngestedDocs)

SpecIsolation == InitIsolation /\ [][NextIsolation]_vars

\* ------------------------------------- reciprocal rank fusion on its own
\* the ids that occur in the ranked lists
FusionIds == {"a", "b", "c", "d"}

\* the ranked lists: every list of at most MaxRank ids, an id may occur more
\* than once in a list
RankedLists == SeqsUpTo(FusionIds, MaxRank)

\* the two lists of the call fuse([[a,b,c],[b,c,d]], k=60)
ExampleLists == << <<"a", "b", "c">>, <<"b", "c", "d">> >>

\* the values of k: the smallest ones and the default
FusionKs == {0, 1, rrf_k}

InitFusion ==
    /\ PipelineIdle
    /\ PackerIdle
    /\ queries = [q \in QueryIds |-> NewQuery]
    /\ cache = [c \in CaseIds |-> NoEntry]
    /\ \E lists \in SeqsUpTo(RankedLists, 2) \cup {ExampleLists}, k \in FusionKs :
         fusion = [pc |-> "CALL", results_lists |-> lists, k |-> k,
                   fused_results |-> <<>>]

\* _reciprocal_rank_fusion(results_lists, k) returns
fuse ==
    /\ fusion.pc = "CALL"
    /\ fusion' = [fusion EXCEPT
           !.pc = "RETURNED",
           !.fused_results = reciprocal_rank_fusion(fusion.results_lists, fusion.k)]
    /\ UNCHANGED <<packer_vars, pipeline_vars, query_vars>>

NextFusion == fuse

SpecFusion == InitFusion /\ [][NextFusion]_vars

\* ------------------------------------------------------------------ claims
RunIds(d) == 1..Len(runs[d])

Dispatched(run) == Len(run.batches) >= 1

AllSucceeded(run) ==
    Dispatched(run) /\ \A k \in 1..Len(run.batches) : run.batches[k] = "SUCCESS"

SomeFailed(run) == \E k \in 1..Len(run.batches) : run.batches[k] = "FAILURE"

\* nothing of the run is left to execute
RunQuiescent(run) ==
    /\ run.prep = "DONE"
    /\ \A k \in 1..Len(run.batches) : run.batches[k] \in {"SUCCESS", "FAILURE"}
    /\ run.cb_queued = 0

\* when all batch units of a run have succeeded exactly one completion
\* callback has been sent for it (queued or run, never two), and once it has
\* run the document is COMPLETED with the success message and a timestamp
OneCallbackWhenAllSucceeded ==
    \A d \in DocIds : \A r \in RunIds(d) :
        AllSucceeded(runs[d][r]) =>
            /\ runs[d][r].cb_queued + runs[d][r].cb_runs = 1
            /\ runs[d][r].cb_runs = 1 =>
                  /\ documents[d].status = "COMPLETED"
                  /\ documents[d].status_message.text
                        = "Successfully indexed for searching."
                  /\ documents[d].processed_at # Null

C2_FailureBlocksCompletion ==
    \A d \in DocIds : \A r \in RunIds(d) :
        SomeFailed(runs[d][r]) =>
            /\ runs[d][r].cb_queued = 0
            /\ runs[d][r].cb_runs = 0
            /\ documents[d].status # "COMPLETED"

C2_Witness ==
    \E d \in DocIds :
        /\ Len(runs[d]) = 1
        /\ runs[d][1].batches = <<"FAILURE", "SUCCESS">>
        /\ documents[d].status = "PROCESSING"

\* C3: when a batch unit has failed and nothing of the document's pipeline is
\* left to run, the document is FAILED and its message carries the error.
C3_BatchFailureMarksFailed ==
    \A d \in DocIds : \A r \in RunIds(d) :
        (SomeFailed(runs[d][r]) /\ RunQuiescent(runs[d][r])) =>
            /\ documents[d].status = "FAILED"
            /\ documents[d].status_message.detail = "EmbedError"

\* C4: a completion callback exists (queued or run) only when every batch
\* unit of the document has succeeded, and whenever the document is COMPLETED
\* every one of its batches has its records in the collection of its case.
C4_CompletedOnlyAfterAllStored ==
    \A d \in DocIds : \A r \in RunIds(d) :
        /\ runs[d][r].cb_queued + runs[d][r].cb_runs > 0 => AllSucceeded(runs[d][r])
        /\ documents[d].status = "COMPLETED" =>
              /\ Dispatched(runs[d][r])
              /\ \A k \in 1..Len(runs[d][r].batches) :
                    /\ runs[d][r].batches[k] = "SUCCESS"
                    /\ BatchIds(d, BatchOf(DocChunks(d).chunks, k))
                          \subseteq store[CollectionName(documents[d].case_id)]

C4_Witness ==
    \E d \in DocIds :
        /\ documents[d].status = "COMPLETED"
        /\ Len(runs[d][1].batches) >= 2
        /\ Cardinality(store[CollectionName(documents[d].case_id)]) > batch_size

\* C5: a FAILED or COMPLETED status is never changed by any step, and
\* PROCESSING is written only over PENDING.
C5_TerminalAbsorbing ==
    [][\A d \in DocIds :
          /\ documents[d].status \in {"FAILED", "COMPLETED"}
                => documents'[d].status = documents[d].status
          /\ (documents'[d].status = "PROCESSING" /\ documents[d].status # "PROCESSING")
                => documents[d].status = "PENDING"]_vars

\* C6: when parsing or chunking raised in prepare_and_process_document, the
\* document is FAILED with the exception text in its message and no batch
\* unit and no callback was dispatched.
C6_PreparationErrorMarksFailed ==
    \A d \in DocIds : \A r \in RunIds(d) :
        runs[d][r].exc # "none" =>
            /\ documents[d].status = "FAILED"
            /\ documents[d].status_message
                  = Message("Error during preparation: ", runs[d][r].exc)
            /\ runs[d][r].batches = <<>>
            /\ runs[d][r].cb_queued = 0
            /\ runs[d][r].cb_runs = 0

C6_Witness ==
    /\ \E d \in DocIds : /\ Len(runs[d]) = 1
                         /\ runs[d][1].exc = "TypeError"
                         /\ documents[d].status = "FAILED"
    /\ \E d \in DocIds : /\ Len(runs[d]) = 1
                         /\ runs[d][1].exc = "PartitionError"
                         /\ documents[d].status = "FAILED"

\* C7: when prepare_and_process_document has finished without exception on a
\* file whose chunking yields zero chunks, the document is FAILED with the
\* no-content message and no batch unit and no callback was dispatched.
C7_NoChunksMarksFailed ==
    \A d \in DocIds : \A r \in RunIds(d) :
        ( /\ runs[d][r].prep = "DONE"
          /\ runs[d][r].exc = "none"
          /\ DocChunks(d).chunks = <<>> ) =>
            /\ documents[d].status = "FAILED"
            /\ documents[d].status_message = Message("No content found to process.", "")
            /\ runs[d][r].batches = <<>>
            /\ runs[d][r].cb_queued = 0
            /\ runs[d][r].cb_runs = 0

C7_Witness ==
    \E d \in DocIds :
        /\ Len(runs[d]) = 1
        /\ runs[d][1].prep = "DONE"
        /\ runs[d][1].exc = "none"
        /\ files[d] = <<>>
        /\ documents[d].status = "FAILED"

\* C8: when the packer has finished on a segment sequence that is empty or
\* whose cleaned texts are all empty, it has produced zero chunks.
C8_EmptyTextYieldsNoChunks ==
    ( /\ packer_done
      /\ \A i \in 1..Len(elements) : clean(elements[i]) = <<>> )
        => packer.chunks = <<>>

\* C9: every chunk the packer has produced has at most
\* target_chunk_size_chars characters.
C9_ChunkWithinTarget ==
    \A i \in 1..Len(packer.chunks) :
        TextLen(packer.chunks[i].text) <= target_chunk_size_chars

\* C10: every chunk the packer has produced has at most
\* target_chunk_size_chars + chunk_overlap characters.
C10_ChunkWithinTargetPlusOverlap ==
    \A i \in 1..Len(packer.chunks) :
        TextLen(packer.chunks[i].text) <= target_chunk_size_chars + chunk_overlap

C10_Witness ==
    /\ packer_done
    /\ Len(elements) = 2
    /\ \E i \in 1..Len(packer.chunks) :
          TextLen(packer.chunks[i].text) > target_chunk_size_chars
    /\ \E i \in 1..Len(packer.chunks) :
          /\ packer.chunks[i].text # <<>>
          /\ Head(packer.chunks[i].text).lo > 0

\* the pieces of a chunk list in output order, then those of the accumulator
RECURSIVE PiecesOf(_)
PiecesOf(chunks) ==
    IF chunks = <<>> THEN <<>> ELSE Head(chunks).text \o PiecesOf(Tail(chunks))

\* a piece list with the separators dropped and every slice that starts
\* inside a text joined to the part of that text read so far; a slice that
\* does not continue the text before it is kept apart
RECURSIVE Rejoin(_, _)
Rejoin(acc, pieces) ==
    IF pieces = <<>> THEN acc
    ELSE LET p == Head(pieces)
             last == acc[Len(acc)]
         IN IF p = SepPiece THEN Rejoin(acc, Tail(pieces))
            ELSE IF /\ p.lo > 0
                    /\ acc # <<>>
                    /\ last.txt = p.txt
                    /\ p.lo <= last.hi
                    /\ last.hi <= p.hi
            THEN Rejoin([acc EXCEPT ![Len(acc)].hi = p.hi], Tail(pieces))
            ELSE Rejoin(Append(acc, p), Tail(pieces))

\* the cleaned texts of the first n elements, in input order
RECURSIVE CleanedTexts(_, _)
CleanedTexts(els, n) ==
    IF n = 0 THEN <<>> ELSE CleanedTexts(els, n - 1) \o clean(els[n])

\* C11: as long as the packer has not raised, the chunks produced so far
\* followed by the accumulator, with separators dropped and slice overlaps
\* joined, are the cleaned texts of the segments consumed so far, in input
\* order; after the flush the chunks alone are the texts of all segments.
C11_ChunksReconstructInput ==
    packer.err = "none" =>
        /\ Rejoin(<<>>, PiecesOf(packer.chunks) \o packer.text)
              = CleanedTexts(elements, el_index)
        /\ packer_done => (packer.text = <<>> /\ el_index = Len(elements))

C11_Witness ==
    /\ packer_done
    /\ packer.err = "none"
    /\ Len(elements) = 2
    /\ Len(packer.chunks) = 3
    /\ Head(packer.chunks[1].text) = SepPiece
    /\ Head(packer.chunks[3].text).lo > 0

\* ceil(n / m)
CeilDiv(n, m) == CHOOSE q \in 0..n : q * m >= n /\ (q - 1) * m < n

\* the first k batches of a chunk list, concatenated in order
RECURSIVE ConcatBatches(_, _)
ConcatBatches(chunks, k) ==
    IF k = 0 THEN <<>> ELSE ConcatBatches(chunks, k - 1) \o BatchOf(chunks, k)

\* the batches of a chunk list are ceil(n/128) slices of 1..128 chunks each
\* whose concatenation is the list
BatchingPartitions(chunks) ==
    LET n == Len(chunks)
        m == NumBatches(n)
    IN /\ m = CeilDiv(n, batch_size)
       /\ \A k \in 1..m : Len(BatchOf(chunks, k)) \in 1..batch_size
       /\ ConcatBatches(chunks, m) = chunks

\* the lengths of the chunk lists the batching is tabulated on
BatchedLengths == 1..(MaxBatches * batch_size + 1)

BatchingTable == \A n \in BatchedLengths : BatchingPartitions([i \in 1..n |-> i])

\* C12: every chunk list of length n >= 1 is cut into ceil(n/128)
\* consecutive non-empty batches of at most 128 chunks whose concatenation
\* is the list, and a preparation that ends without exception on such a
\* list has dispatched exactly ceil(n/128) batch units.
C12_BatchesPartitionChunks ==
    /\ BatchingTable
    /\ \A d \in DocIds : \A r \in RunIds(d) :
          LET chunks == DocChunks(d).chunks
          IN ( /\ runs[d][r].prep = "DONE"
               /\ runs[d][r].exc = "none"
               /\ Len(chunks) >= 1 ) =>
                  /\ BatchingPartitions(chunks)
                  /\ Len(runs[d][r].batches) = CeilDiv(Len(chunks), batch_size)

C12_Witness ==
    \E d \in DocIds :
        /\ Len(runs[d]) = 1
        /\ runs[d][1].prep = "DONE"
        /\ Len(DocChunks(d).chunks) = batch_size + 1
        /\ Len(runs[d][1].batches) = 2
        /\ Len(BatchOf(DocChunks(d).chunks, 2)) = 1

\* the records of document d in the collection of its case
StoredOf(d) == { id \in store[CollectionName(documents[d].case_id)] : id.document_id = d }

C14_BatchIdsDisjoint ==
    \A d \in DocIds : \A r \in RunIds(d) :
        LET chunks == DocChunks(d).chunks
        IN /\ \A k1, k2 \in 1..Len(runs[d][r].batches) :
                k1 # k2 => BatchIds(d, BatchOf(chunks, k1))
                              \cap BatchIds(d, BatchOf(chunks, k2)) = {}
           /\ AllSucceeded(runs[d][r]) => Cardinality(StoredOf(d)) = Len(chunks)

\* -------- claims about the query pipeline
\* the call has passed the confidence gates with a non-empty vector result
PastGates(qr) ==
    /\ qr.pc \notin {"IDLE", "EXPAND", "VECTOR", "GATES"}
    /\ qr.vector_results # <<>>

BestDistance(qr) == qr.vector_results[1].distance

CallsOf(qr) == { qr.calls[i] : i \in 1..Len(qr.calls) }

KeywordCalls == {"cache_read", "corpus_fetch", "cache_write", "keyword_search"}

DeepDiveCalls == KeywordCalls \cup {"fusion", "candidate_fetch", "rerank"}

\* the stored metadata of the first n vector hits
TopHits(qr, n) ==
    { Metadata(qr.vector_results[i].id, qr.case_id) :
        i \in 1..Min(n, Len(qr.vector_results)) }

ChunksOf(seq) == { seq[i] : i \in 1..Len(seq) }

\* C15: a query whose best distance is at most SLAM_DUNK_THRESHOLD is on the
\* fast path and makes no keyword, fusion or re-rank call; once the metadata
\* fetch has returned, its final chunks are the first three vector hits, and
\* they are the sources of the generated answer.
C15_SlamDunkTakesFastPath ==
    \A q \in QueryIds :
        LET qr == queries[q]
        IN (PastGates(qr) /\ BestDistance(qr) <= SLAM_DUNK_THRESHOLD) =>
              /\ qr.path = "FAST"
              /\ CallsOf(qr) \cap DeepDiveCalls = {}
              /\ qr.raised = "none" =>
                    /\ ChunksOf(qr.final_chunks) = TopHits(qr, fast_path_top)
                    /\ Len(qr.final_chunks) = Min(fast_path_top, Len(qr.vector_results))
              /\ qr.response.answer = FINAL_ANSWER =>
                    qr.response.sources = qr.final_chunks

C15_Witness ==
    \E q \in QueryIds :
        /\ queries[q].pc = "DONE"
        /\ Len(queries[q].vector_results) = n_results
        /\ BestDistance(queries[q]) = SLAM_DUNK_THRESHOLD
        /\ queries[q].response.answer = FINAL_ANSWER
        /\ Len(queries[q].response.sources) = fast_path_top

\* C16 as stated: a query whose best distance is exactly MISS_THRESHOLD
\* takes the miss exit and answers 'not sufficiently relevant'.
C16_MissBoundaryTakesMissExit ==
    \A q \in QueryIds :
        LET qr == queries[q]
        IN (PastGates(qr) /\ BestDistance(qr) = MISS_THRESHOLD) =>
              /\ qr.path = "MISS"
              /\ qr.response.answer = ANSWER_NOT_RELEVANT

\* C16, amended: a query whose best distance is exactly MISS_THRESHOLD
\* enters the deep dive and never answers 'not sufficiently relevant'; the
\* miss exit is taken exactly for the distances above MISS_THRESHOLD.
C16_MissBoundaryTakesDeepDive ==
    \A q \in QueryIds :
        LET qr == queries[q]
        IN PastGates(qr) =>
              /\ BestDistance(qr) = MISS_THRESHOLD =>
                    /\ qr.path = "DEEP"
                    /\ qr.response.answer # ANSWER_NOT_RELEVANT
              /\ qr.path = "MISS" <=> BestDistance(qr) > MISS_THRESHOLD

C16_Witness ==
    \E q \in QueryIds :
        /\ queries[q].pc = "DONE"
        /\ queries[q].vector_results # <<>>
        /\ BestDistance(queries[q]) = MISS_THRESHOLD
        /\ queries[q].path = "DEEP"
        /\ "rerank" \in CallsOf(queries[q])
        /\ queries[q].response.answer = FINAL_ANSWER

\* the first position of a call in the call log (0: not called)
CallAt(qr, name) ==
    IF name \in CallsOf(qr)
    THEN CHOOSE i \in 1..Len(qr.calls) :
            qr.calls[i] = name /\ \A j \in 1..(i - 1) : qr.calls[j] # name
    ELSE 0

\* the call has reached the synthesis step
ReachedSynthesis(qr) ==
    \/ qr.pc = "SYNTH"
    \/ "generation" \in CallsOf(qr)
    \/ qr.response.answer \in {FINAL_ANSWER, ANSWER_NONE_RELEVANT}

\* C17: a query whose best distance lies strictly between the two
\* thresholds is in the deep dive, never on the fast path or the miss exit,
\* and when it reaches synthesis it has read the keyword index cache, fused
\* the rankings and called the re-ranker, in this order and before the
\* generation call.
C17_AmbiguousEntersDeepDive ==
    \A q \in QueryIds :
        LET qr == queries[q]
        IN ( /\ PastGates(qr)
             /\ SLAM_DUNK_THRESHOLD < BestDistance(qr)
             /\ BestDistance(qr) < MISS_THRESHOLD ) =>
              /\ qr.path = "DEEP"
              /\ qr.response.answer # ANSWER_NOT_RELEVANT
              /\ "metadata_fetch" \notin CallsOf(qr)
              /\ ReachedSynthesis(qr) =>
                    /\ 0 < CallAt(qr, "cache_read")
                    /\ CallAt(qr, "cache_read") < CallAt(qr, "fusion")
                    /\ CallAt(qr, "fusion") < CallAt(qr, "rerank")
                    /\ "generation" \in CallsOf(qr) =>
                          CallAt(qr, "rerank") < CallAt(qr, "generation")

C17_Witness ==
    \E q \in QueryIds :
        /\ queries[q].pc = "DONE"
        /\ queries[q].vector_results # <<>>
        /\ BestDistance(queries[q]) = SLAM_DUNK_THRESHOLD + 1
        /\ queries[q].path = "DEEP"
        /\ "keyword_search" \in CallsOf(queries[q])
        /\ "rerank" \in CallsOf(queries[q])
        /\ queries[q].response.answer = FINAL_ANSWER

\* a call that has taken an early exit after the vector search has made no
\* later call
NoCallAfterVectorSearch(qr) ==
    CallsOf(qr) \cap (DeepDiveCalls \cup {"metadata_fetch", "generation"}) = {}

\* C18: a query whose best distance is above MISS_THRESHOLD has returned
\* the 'not sufficiently relevant' response with no sources and has made no
\* keyword, re-rank or generation call; a query whose vector search returned
\* no hit returns, as its next step, the 'no information' response with no
\* sources and makes no further call; a finished query does nothing more.
C18_MissAndNoResultsExitEarly ==
    /\ [](\A q \in QueryIds :
            LET qr == queries[q]
            IN (PastGates(qr) /\ BestDistance(qr) > MISS_THRESHOLD) =>
                  /\ qr.pc = "DONE"
                  /\ qr.http = "200"
                  /\ qr.response = [answer |-> ANSWER_NOT_RELEVANT, sources |-> <<>>]
                  /\ NoCallAfterVectorSearch(qr))
    /\ [][\A q \in QueryIds :
            /\ ( /\ queries[q].pc = "GATES"
                 /\ queries[q].vector_results = <<>>
                 /\ queries'[q] # queries[q] ) =>
                    /\ queries'[q].pc = "DONE"
                    /\ queries'[q].http = "200"
                    /\ queries'[q].response
                          = [answer |-> ANSWER_NO_RESULTS, sources |-> <<>>]
                    /\ queries'[q].calls = queries[q].calls
                    /\ NoCallAfterVectorSearch(queries[q])
            /\ queries[q].pc = "DONE" => queries'[q] = queries[q]]_vars

C18_Witness ==
    \E q \in QueryIds :
        /\ queries[q].pc = "DONE"
        /\ queries[q].vector_results # <<>>
        /\ BestDistance(queries[q]) = MISS_THRESHOLD + 1
        /\ queries[q].response.answer = ANSWER_NOT_RELEVANT

\* C19: no exception leaves process_query: every finished query whose case
\* check passed has a response, the endpoint answered 200, and unless the
\* answer is the generated one the source list is empty.
C19_NeverRaises ==
    \A q \in QueryIds :
        LET qr == queries[q]
        IN (qr.pc = "DONE" /\ qr.http # "404") =>
              /\ qr.raised = "none"
              /\ qr.http = "200"
              /\ qr.response.answer # ""
              /\ qr.response.answer # FINAL_ANSWER => qr.response.sources = <<>>

\* C20: the expansion call is made only for a query of fewer than
\* SHORT_QUERY_WORD_COUNT words; a query that is not rewritten (expansion
\* not attempted, or attempted and failed) is the original query, and in
\* every case the request goes on to the vector search.
C20_ExpansionBestEffort ==
    \A q \in QueryIds :
        LET qr == queries[q]
        IN /\ "expansion" \in CallsOf(qr) => qr.original.words < SHORT_QUERY_WORD_COUNT
           /\ (qr.pc \notin {"IDLE", "EXPAND"} /\ qr.http # "404") =>
                 /\ qr.query.expanded => "expansion" \in CallsOf(qr)
                 /\ ~qr.query.expanded => qr.query = qr.original
                 /\ qr.pc = "VECTOR" \/ "embedding" \in CallsOf(qr)

C20_Witness ==
    \E q \in QueryIds :
        /\ queries[q].pc = "DONE"
        /\ queries[q].original.words = SHORT_QUERY_WORD_COUNT - 1
        /\ "expansion" \in CallsOf(queries[q])
        /\ ~queries[q].query.expanded
        /\ queries[q].query = queries[q].original
        /\ "vector_query" \in CallsOf(queries[q])
        /\ queries[q].response.answer = FINAL_ANSWER

C25_UnreadableCacheIsAMiss ==
    \A q \in QueryIds :
        LET qr == queries[q]
        IN "cache_read" \in qr.failed =>
              /\ qr.raised = "none"
              /\ qr.http # "500"
              /\ qr.pc = "BM25_BUILD" \/ "corpus_fetch" \in CallsOf(qr)

\* -------- claims about reciprocal rank fusion
\* the places (list, zero-based rank) at which an id occurs
OccurrencesOf(results_lists, doc_id) ==
    { p \in (1..Len(results_lists)) \X (0..(MaxRank + 1)) :
        /\ p[2] < Len(results_lists[p[1]])
        /\ results_lists[p[1]][p[2] + 1] = doc_id }

\* the sum of 1 / (k + r + 1) over a set of places
RECURSIVE SumOverPlaces(_, _)
SumOverPlaces(places, k) ==
    IF places = {} THEN Frac(0, 1)
    ELSE LET p == CHOOSE p \in places : TRUE
         IN FracAdd(Frac(1, k + p[2] + 1), SumOverPlaces(places \ {p}, k))

IdsOf(results_lists) ==
    UNION { { results_lists[m][i] : i \in 1..Len(results_lists[m]) } :
              m \in 1..Len(results_lists) }

FusedScore(doc_id) ==
    LET i == CHOOSE i \in 1..Len(fusion.fused_results) :
                 fusion.fused_results[i].doc_id = doc_id
    IN fusion.fused_results[i].score

FirstSeenAt(results_lists, doc_id) ==
    LET flat == Flatten(results_lists)
    IN CHOOSE i \in 1..Len(flat) :
           flat[i] = doc_id /\ \A j \in 1..(i - 1) : flat[j] # doc_id

PlaceInOutput(doc_id) ==
    CHOOSE i \in 1..Len(fusion.fused_results) : fusion.fused_results[i].doc_id = doc_id

\* C28: the output of the fusion holds every id of the input lists exactly
\* once and no other id, in the order of non-increasing score, ids of equal
\* score in the order in which they were first seen; for
\* fuse([[a,b,c],[b,c,d]], k=60) b and c come before a and d.
C28_OutputOrderedByScore ==
    fusion.pc = "RETURNED" =>
        LET out == fusion.fused_results
        IN /\ { out[i].doc_id : i \in 1..Len(out) } = IdsOf(fusion.results_lists)
           /\ Len(out) = Cardinality(IdsOf(fusion.results_lists))
           /\ \A i, j \in 1..Len(out) :
                 i < j =>
                    /\ ~FracGreater(out[j].score, out[i].score)
                    /\ out[i].score = out[j].score =>
                          FirstSeenAt(fusion.results_lists, out[i].doc_id)
                             < FirstSeenAt(fusion.results_lists, out[j].doc_id)
           /\ (fusion.results_lists = ExampleLists /\ fusion.k = rrf_k) =>
                 \A x \in {"b", "c"}, y \in {"a", "d"} :
                     PlaceInOutput(x) < PlaceInOutput(y)

C28_Witness ==
    /\ fusion.pc = "RETURNED"
    /\ fusion.k = rrf_k
    /\ fusion.results_lists = ExampleLists
    /\ [i \in 1..Len(fusion.fused_results) |-> fusion.fused_results[i].doc_id]
          = <<"b", "c", "a", "d">>

\* -------- claims about the keyword index cache
\* the request got its index from the cache, without fetching the corpus
ServedFromCache(qr) ==
    /\ "cache_read" \in CallsOf(qr)
    /\ "corpus_fetch" \notin CallsOf(qr)
    /\ qr.raised = "none"
    /\ qr.bm25.present

\* the request built its index and wrote it to the cache
BuiltAndCached(qr) ==
    /\ "cache_write" \in CallsOf(qr)
    /\ qr.bm25.present

\* C22: a lookup that reads the cache before the expiry time (set time +
\* cache_ttl) of the value it holds returns that index and fetches no
\* corpus; a lookup that reads it after the expiry time goes on to the
\* build; the build fetches the corpus, and the index it returns was built
\* from the corpus of that moment and is in the cache with the current time
\* as its set time.  (Reads that raise are the subject of C25.)
C22_CacheServesUntilTTL ==
    [][\A q \in QueryIds :
          LET qr == queries[q]
              nx == queries'[q]
              entry == cache[qr.case_id]
          IN /\ ( /\ qr.pc = "CACHE_GET"
                  /\ nx # qr
                  /\ nx.raised = "none"
                  /\ entry.present ) =>
                    /\ now < entry.set_at + cache_ttl =>
                          /\ nx.pc = "KEYWORD"
                          /\ nx.bm25 = [present |-> TRUE, corpus |-> entry.corpus]
                          /\ "corpus_fetch" \notin CallsOf(nx)
                          /\ cache' = cache
                    /\ now > entry.set_at + cache_ttl => nx.pc = "BM25_BUILD"
             /\ (qr.pc = "BM25_BUILD" /\ nx # qr) =>
                    /\ "corpus_fetch" \in CallsOf(nx)
                    /\ nx.bm25.present =>
                          /\ nx.bm25.corpus
                                = CorpusOf(store[CollectionName(qr.case_id)])
                          /\ cache'[qr.case_id]
                                = [present |-> TRUE, corpus |-> nx.bm25.corpus,
                                   set_at |-> now]]_vars

\* the index cached at time 0 was served to one request, and after its
\* expiry (and after a batch was added to the case) another request has
\* rebuilt and cached it
C22_Witness ==
    /\ now = cache_ttl + 1
    /\ cache[1].present
    /\ cache[1].set_at = cache_ttl + 1
    /\ \E q1, q2 \in QueryIds :
          /\ ServedFromCache(queries[q1])
          /\ queries[q1].bm25.corpus = CorpusOf(Corpus(MaxCorpus))
          /\ BuiltAndCached(queries[q2])
          /\ queries[q2].bm25.corpus = cache[1].corpus
          /\ Len(cache[1].corpus) = MaxCorpus + 1

\* C23: a request that is about to run (or has run) its keyword search with
\* an index ranks the corpus that index was built from: the texts the
\* collection holds for the case are the corpus of the index, and the
\* search does not fail on a corpus of another size.
C23_IndexAndCorpusAreOneUnit ==
    \A q \in QueryIds :
        LET qr == queries[q]
        IN /\ qr.raised # "AssertionError"
           /\ (qr.pc = "KEYWORD" /\ qr.bm25.present) =>
                 CorpusOf(store[CollectionName(qr.case_id)]) = qr.bm25.corpus

\* C24: a lookup that finds no chunk text for the case returns no index,
\* writes nothing to the cache and does not raise; a request without an
\* index makes no keyword search and goes on to the fusion with its vector
\* results and an empty keyword list.
C24_EmptyCorpusGivesNoIndex ==
    [][\A q \in QueryIds :
          LET qr == queries[q]
              nx == queries'[q]
          IN /\ ( /\ qr.pc = "BM25_BUILD"
                  /\ nx # qr
                  /\ store[CollectionName(qr.case_id)] = {} ) =>
                    /\ nx.pc = "KEYWORD"
                    /\ nx.bm25 = NoIndex
                    /\ nx.raised = "none"
                    /\ "cache_write" \notin CallsOf(nx)
                    /\ cache' = cache
             /\ (qr.pc = "KEYWORD" /\ ~qr.bm25.present /\ nx # qr) =>
                    /\ nx.pc = "FUSE"
                    /\ nx.raised = "none"
                    /\ nx.keyword_doc_ids = <<>>
                    /\ nx.vector_results = qr.vector_results
                    /\ "keyword_search" \notin CallsOf(nx)]_vars

C24_Witness ==
    \E q \in QueryIds :
        /\ queries[q].pc = "FUSE"
        /\ "corpus_fetch" \in CallsOf(queries[q])
        /\ "cache_write" \notin CallsOf(queries[q])
        /\ ~queries[q].bm25.present
        /\ queries[q].keyword_doc_ids = <<>>
        /\ queries[q].vector_results # <<>>
        /\ store[CollectionName(1)] = {}
        /\ ~cache[1].present

\* the complete values: the corpus of an index some request has built and
\* cached, or the one the cache held at the start
CompleteValues ==
    { queries[q].bm25.corpus : q \in { p \in QueryIds : BuiltAndCached(queries[p]) } }
        \cup { CorpusOf(Corpus(n)) : n \in CorpusSizes \ {0} }

\* C26: the value the cache holds for a case is the complete value written
\* by one builder (or the one it held at the start), and so is the index of
\* every request that was served from the cache.
C26_CacheValueIsOneWholeBuild ==
    /\ \A c \in CaseIds : cache[c].present => cache[c].corpus \in CompleteValues
    /\ \A q \in QueryIds :
          ServedFromCache(queries[q]) => queries[q].bm25.corpus \in CompleteValues

\* two requests missed the cache at the same time (nothing expires at time
\* 0) and built different indexes; the cache holds the one of the last
\* writer
C26_Witness ==
    /\ now = 0
    /\ \A q \in QueryIds : BuiltAndCached(queries[q])
    /\ queries[1].bm25.corpus # queries[2].bm25.corpus
    /\ cache[1].present
    /\ cache[1].corpus = queries[2].bm25.corpus

\* -------- claims about the separation of cases
\* the case of the document a record belongs to
CaseOfRecord(id) == documents[id.document_id].case_id

AllRecords == UNION { store[name] : name \in CollectionNames }

\* C30: what a query on a case works with belongs to that case: its vector
\* hits and its sources are records of the collection of the case whose
\* document is a document of the case, and the texts of its keyword index
\* are texts of such records; a step of the ingestion of a document of
\* another case changes neither the collection of the case, nor its cached
\* index, nor any request on the case.
C30_CasesAreIsolated ==
    /\ [](\A q \in QueryIds :
            LET qr == queries[q]
            IN /\ \A i \in 1..Len(qr.vector_results) :
                     /\ qr.vector_results[i].id \in store[CollectionName(qr.case_id)]
                     /\ CaseOfRecord(qr.vector_results[i].id) = qr.case_id
               /\ \A i \in 1..Len(qr.response.sources) :
                     /\ qr.response.sources[i].case_id = qr.case_id
                     /\ \E id \in store[CollectionName(qr.case_id)] :
                           /\ Metadata(id, qr.case_id) = qr.response.sources[i]
                           /\ CaseOfRecord(id) = qr.case_id
               /\ \A i \in 1..Len(qr.bm25.corpus) :
                     \E id \in AllRecords :
                        /\ TextOf(id) = qr.bm25.corpus[i]
                        /\ CaseOfRecord(id) = qr.case_id)
    /\ [][\A d \in DocIds, c \in CaseIds :
            (runs'[d] # runs[d] /\ documents[d].case_id # c) =>
                /\ store'[CollectionName(c)] = store[CollectionName(c)]
                /\ cache'[c] = cache[c]
                /\ \A q \in QueryIds :
                      queries[q].case_id = c => queries'[q] = queries[q]]_vars

\* a deep-dive query on case 1 has answered with sources while the batch of
\* document 2 was stored for case 2
C30_Witness ==
    \E q \in QueryIds :
        /\ queries[q].pc = "DONE"
        /\ queries[q].case_id = 1
        /\ queries[q].path = "DEEP"
        /\ queries[q].bm25.present
        /\ queries[q].response.answer = FINAL_ANSWER
        /\ queries[q].response.sources # <<>>
        /\ documents[2].case_id = 2
        /\ store[CollectionName(2)] # {}

\* -------- claims about termination
\* C29: every invocation of process_query eventually returns (with a
\* response or with an exception): a request that was started is eventually
\* finished.
C29_QueryEventuallyReturns ==
    \A q \in QueryIds : (queries[q].pc # "IDLE") ~> (queries[q].pc = "DONE")

\* ---------------------------------------------------------------- C31, C32
\* a chunk cut from an oversized segment: one window of one text
IsSlice(c) == Len(c.text) = 1 /\ Head(c.text) # SepPiece

\* The segments behind each chunk, found by following the loop on the
\* segment indices instead of the page numbers: groups are the index sets of
\* the chunks emitted so far, acc the indices of the segments that went into
\* the accumulator since it was last emitted, len the length of its text.
NoGroups == [groups |-> <<>>, acc |-> {}, len |-> 0]

GroupStep(g, el, i) ==
    LET n == TextLen(clean(el))
        windows == [k \in 1..NumSlices(n, target_chunk_size_chars, chunk_overlap) |-> {i}]
    IN IF n > target_chunk_size_chars
       THEN IF g.len > 0
            THEN [groups |-> Append(g.groups, g.acc) \o windows, acc |-> {}, len |-> 0]
            ELSE [g EXCEPT !.groups = g.groups \o windows]
       ELSE IF g.len + n > target_chunk_size_chars
       THEN [groups |-> Append(g.groups, g.acc), acc |-> {i}, len |-> n]
       ELSE [g EXCEPT !.acc = g.acc \cup {i}, !.len = g.len + 2 + n]

RECURSIVE GroupLoop(_, _)
GroupLoop(els, n) ==
    IF n = 0 THEN NoGroups ELSE GroupStep(GroupLoop(els, n - 1), els[n], n)

\* the index sets of the chunks of the current state
SegmentsOf(els, n, flushed) ==
    LET g == GroupLoop(els, n)
    IN IF flushed /\ g.len > 0 THEN Append(g.groups, g.acc) ELSE g.groups

LocatorsOf(els, idx) == { Locator(els[j].page_number) : j \in idx }

\* as long as the packer has not raised: every chunk carries one locator,
\* it is the locator of a segment that went into the chunk, and no segment
\* of the chunk has a smaller page number
ChunkTagsAreSmallest ==
    packer.err = "none" =>
        LET segs == SegmentsOf(elements, el_index, packer_done)
        IN /\ Len(segs) = Len(packer.chunks)
           /\ \A i \in 1..Len(packer.chunks) :
                 LET locs == LocatorsOf(elements, segs[i])
                     tag == packer.chunks[i].page_number
                 IN /\ segs[i] # {}
                    /\ tag \in locs
                    /\ \A l \in locs : (l.isInt /\ tag.isInt) => tag.n <= l.n
                    /\ (\E l \in locs : l.isInt) => tag.isInt

\* the accumulator holds a segment with a page number and one without
MixedAccumulator ==
    /\ \E l \in packer.pages : l.isInt
    /\ NA \in packer.pages

\* C31: every accumulator is flushed into a chunk tagged with the smallest
\* page locator of the segments packed into it, also when some of them have
\* no page number: the packer never stops on a flush, and every chunk
\* carries exactly one locator, that of a segment whose text it holds.
C31_ChunkTaggedWithSmallestLocator ==
    /\ packer.err = "none"
    /\ ChunkTagsAreSmallest

\* the chunks a step has appended to the chunk list
AddedChunks(before, after) == SubSeq(after, Len(before) + 1, Len(after))

\* C32: a step of the packer that consumes a segment longer than the target
\* and does not raise appends the non-empty accumulator as a chunk of its
\* own, then the windows of the segment, each a single span of that segment
\* tagged with the segment's own locator, each overlapping the previous one
\* and together covering the segment, and leaves the accumulator empty.
C32_OversizedSegmentIsCutAlone ==
    [][ ( /\ el_index' = el_index + 1
          /\ TextLen(clean(elements[el_index + 1])) > target_chunk_size_chars
          /\ packer'.err = "none" )
        => LET el == elements[el_index + 1]
               added == AddedChunks(packer.chunks, packer'.chunks)
               flushed == IF packer.text # <<>> THEN 1 ELSE 0
               n == Len(added)
           IN /\ SubSeq(packer'.chunks, 1, Len(packer.chunks)) = packer.chunks
              /\ n >= flushed + 2
              /\ flushed = 1 =>
                    /\ added[1].text = packer.text
                    /\ added[1].page_number \in packer.pages
              /\ \A i \in (flushed + 1)..n :
                    /\ IsSlice(added[i])
                    /\ Head(added[i].text).txt = el.txt
                    /\ added[i].page_number = Locator(el.page_number)
                    /\ TextLen(added[i].text) <= target_chunk_size_chars
              /\ Head(added[flushed + 1].text).lo = 0
              /\ Head(added[n].text).hi = TextLen(clean(el))
              /\ \A i \in (flushed + 1)..(n - 1) :
                    /\ Head(added[i + 1].text).lo > Head(added[i].text).lo
                    /\ Head(added[i + 1].text).lo < Head(added[i].text).hi
              /\ packer'.text = <<>> ]_vars

\* a short segment of page 1 followed by a segment of target + Excess
\* characters of page 2: one chunk of page 1, then two overlapping windows
\* of page 2
C32_Witness ==
    /\ packer_done
    /\ elements = << Segment("a", ShortLen, 0, 1),
                     Segment("a", target_chunk_size_chars + Excess, 0, 2) >>
    /\ packer.chunks =
          << Chunk(<<SepPiece, Span("a", 0, ShortLen)>>, Locator(1), PackerFile),
             Chunk(<<Span("a", 0, target_chunk_size_chars)>>, Locator(2), PackerFile),
             Chunk(<<Span("a", target_chunk_size_chars - chunk_overlap,
                          target_chunk_size_chars + Excess)>>,
                   Locator(2), PackerFile) >>

\* ---------------------------------------------------------------- C33
\* C33: the keyword result list handed to fusion holds at most keyword_top_n
\* entries and each entry is the id of a record stored for the case of the
\* query, the kind of key the vector result list holds.
C33_KeywordResultsAreChunkIds ==
    \A q \in QueryIds :
        LET qr == queries[q]
        IN /\ Len(qr.keyword_doc_ids) <= keyword_top_n
           /\ \A i \in 1..Len(qr.keyword_doc_ids) :
                 IsStoredId(store[CollectionName(qr.case_id)], qr.keyword_doc_ids[i])

\* ---------------------------------------------------------------- C34
\* the place of each external call in the text of process_query; the fast
\* path fetches its metadata where the deep dive starts its keyword lookup
CallPlace(name) ==
    CASE name = "expansion" -> 1
      [] name = "embedding" -> 2
      [] name = "get_collection" -> 3
      [] name = "vector_query" -> 4
      [] name = "metadata_fetch" -> 5
      [] name = "cache_read" -> 5
      [] name = "corpus_fetch" -> 6
      [] name = "cache_write" -> 7
      [] name = "keyword_search" -> 8
      [] name = "fusion" -> 9
      [] name = "candidate_fetch" -> 10
      [] name = "rerank" -> 11
      [] name = "generation" -> 12

\* C34: the calls one request has made so far are in the order expansion,
\* embedding, vector query, keyword-index lookup, fusion, metadata fetch,
\* re-rank, generation, each made at most once; the keyword index is read
\* or built only by a request in the deep dive, and the fast-path fetch is
\* made only by a request on the fast path.
C34_CallsInFixedOrder ==
    \A q \in QueryIds :
        LET qr == queries[q]
        IN /\ \A i \in 1..(Len(qr.calls) - 1) :
                 CallPlace(qr.calls[i]) < CallPlace(qr.calls[i + 1])
           /\ CallsOf(qr) \cap DeepDiveCalls # {} => qr.path = "DEEP"
           /\ "metadata_fetch" \in CallsOf(qr) => qr.path = "FAST"
           /\ "expansion" \in CallsOf(qr) => NeedsExpansion(qr.original)

\* a deep dive that expanded its query, built and cached the index and
\* generated an answer: all twelve calls, in order
C34_Witness ==
    \E q \in QueryIds :
        /\ queries[q].pc = "DONE"
        /\ queries[q].response.answer = FINAL_ANSWER
        /\ queries[q].calls =
              << "expansion", "embedding", "get_collection", "vector_query",
                 "cache_read", "corpus_fetch", "cache_write", "keyword_search",
                 "fusion", "candidate_fetch", "rerank", "generation" >>

\* ---------------------------------------------------------------- C35
\* no step of the ingestion (a step that changes the pipeline state)
\* changes a cache entry
IngestionLeavesCache ==
    [][ (store' # store \/ runs' # runs \/ documents' # documents)
            => cache' = cache ]_vars

\* the request got its index from the cache, not from a build
IndexFromCache(qr) ==
    /\ "cache_read" \in CallsOf(qr)
    /\ "corpus_fetch" \notin CallsOf(qr)
    /\ qr.bm25.present

\* C35: an index that was cached before new chunks of the case were
\* embedded keeps being served until its expiry and the keyword search keeps
\* working with it: a request that was served its index from the cache and
\* has made its keyword search has not failed in it, and has the keyword
\* results of the cached corpus.
C35_StaleIndexKeepsServing ==
    \A q \in QueryIds :
        LET qr == queries[q]
        IN (IndexFromCache(qr) /\ "keyword_search" \in CallsOf(qr)) =>
              \/ qr.raised = "StoreError"
              \/ /\ qr.raised = "none"
                 /\ qr.pc = "FUSE"
                 /\ Len(qr.keyword_doc_ids)
                       = Min(keyword_top_n, Len(qr.bm25.corpus))

C37_EmptyFinalChunksSkipGeneration ==
    /\ [](\A q \in QueryIds :
             "generation" \in CallsOf(queries[q]) => queries[q].final_chunks # <<>>)
    /\ [][\A q \in QueryIds :
             ( /\ queries[q].pc = "SYNTH"
               /\ queries[q].final_chunks = <<>>
               /\ queries'[q] # queries[q] ) =>
                  /\ queries'[q].pc = "DONE"
                  /\ queries'[q].http = "200"
                  /\ queries'[q].raised = "none"
                  /\ queries'[q].response
                        = [answer |-> ANSWER_NONE_RELEVANT, sources |-> <<>>]
                  /\ queries'[q].calls = queries[q].calls]_vars

\* a deep dive whose candidates were no longer in the collection: the
\* re-ranker got and returned nothing
C37_Witness ==
    \E q \in QueryIds :
        /\ queries[q].pc = "DONE"
        /\ queries[q].path = "DEEP"
        /\ "rerank" \in CallsOf(queries[q])
        /\ queries[q].candidate_chunks = <<>>
        /\ queries[q].final_chunks = <<>>
        /\ queries[q].response = [answer |-> ANSWER_NONE_RELEVANT, sources |-> <<>>]
        /\ "generation" \notin CallsOf(queries[q])

\* the same on the fast path: the first three hits were no longer there
FastPathFoundNothing ==
    \E q \in QueryIds :
        /\ queries[q].path = "FAST"
        /\ queries[q].response = [answer |-> ANSWER_NONE_RELEVANT, sources |-> <<>>]

\* ---------------------------------------------------------------- C38
\* C38: the candidate list a deep dive computes from its vector results and
\* its keyword results holds every id of the vector results and is not
\* empty, and no request has returned the 'no relevant documents after a
\* detailed search' response.
C38_FusedListHoldsVectorIds ==
    \A q \in QueryIds :
        LET qr == queries[q]
        IN /\ qr.response.answer # ANSWER_NO_CANDIDATES
           /\ (qr.path = "DEEP" /\ qr.pc = "FUSE") =>
                 LET top == TopFusedIds(qr.vector_results, qr.keyword_doc_ids)
                 IN /\ top # <<>>
                    /\ \A i \in 1..Len(qr.vector_results) :
                          \E j \in 1..Len(top) : top[j] = IdKey(qr.vector_results[i].id)

\* a deep dive with keyword results has fused and fetched its candidates:
\* one per vector result
C38_Witness ==
    \E q \in QueryIds :
        /\ queries[q].path = "DEEP"
        /\ queries[q].pc = "RERANK"
        /\ "fusion" \in CallsOf(queries[q])
        /\ queries[q].keyword_doc_ids # <<>>
        /\ Len(queries[q].vector_results) = n_results
        /\ Len(queries[q].candidate_chunks) = n_results

\* ---------------------------------------------------------------- C39
\* C39: a task was dispatched for a document only after its row was
\* committed, exactly one task per accepted (202) upload and none for any
\* other upload; an upload whose case check failed has no row and no task;
\* the worker has not started the task on a document id without a row.  The
\* row is committed as PENDING, and an upload that has its row but not yet
\* its task still has it PENDING.
C39_RecordCommittedBeforeDispatch ==
    /\ [](\A d \in DocIds :
             /\ runs[d] # <<>> => documents[d].status # "ABSENT"
             /\ Len(runs[d]) = (IF upload[d] = "202" THEN 1 ELSE 0)
             /\ upload[d] = "404" => (documents[d] = NoDoc /\ files[d] = <<>>)
             /\ upload[d] = "CREATED" => documents[d].status = "PENDING"
             /\ \A r \in RunIds(d) :
                   runs[d][r].prep # "QUEUED" => documents[d].status # "ABSENT")
    /\ [][\A d \in DocIds :
             /\ (documents[d].status = "ABSENT" /\ documents'[d].status # "ABSENT")
                   => (documents'[d].status = "PENDING" /\ runs'[d] = <<>>)
             /\ Len(runs'[d]) > Len(runs[d])
                   => documents[d].status = "PENDING"]_vars

\* one upload was accepted and its task has run on the committed row, the
\* other one was refused at the case check
C39_Witness ==
    \E d, e \in DocIds :
        /\ upload[d] = "202"
        /\ Len(runs[d]) = 1
        /\ runs[d][1].prep = "DONE"
        /\ documents[d].status \in {"PROCESSING", "FAILED", "COMPLETED"}
        /\ upload[e] = "404"
        /\ documents[e] = NoDoc
        /\ runs[e] = <<>>

====
